---- MODULE Spec2Model ----
(***************************************************************************)
(* Execution backend of pdit: the Session/Kernel pair (pdit/session.py,    *)
(* pdit/kernel.py), the queueing WebSocket server (pdit/server.py) and the *)
(* IPython executor (pdit/ipython_executor.py), each driven against a      *)
(* Jupyter kernel that answers execute requests on its iopub channel.      *)
(*                                                                         *)
(* Asyncio tasks are modelled from await point to await point: a step of a *)
(* task resumes it at the await where it is suspended and runs it to the   *)
(* next await.  Task.cancel() only sets a flag; the CancelledError is      *)
(* raised in the task at its next step.                                    *)
(***************************************************************************)
EXTENDS Integers, Sequences, FiniteSets, TLC

\* ------------------------------------------------------------------ bounds
MaxExec == 2         \* execute requests issued in one behaviour
MaxUnits == 2        \* statements of one script
MaxStream == 1       \* output messages a unit emits before error/idle
MaxConns == 2        \* WebSocket connections opened on the session
MaxCancels == 1      \* cancel messages sent for one execution
MaxResets == 1       \* resets that reach one execution while it is running
MaxIds == 2          \* session ids the registry is asked for
MaxCalls == 4        \* calls of get_or_create_session and delete_session
MaxRuns == 4         \* statements run and resets done on one executor
MaxLine == 3         \* lines of a script that is run with a line range
MaxShutdowns == 2    \* calls of IPythonExecutor.shutdown()
MaxStarts == 2       \* calls of IPythonExecutor.start()
MaxTime == 3         \* clock ticks of the registry's clock
MaxFeed == 3         \* messages on iopub ahead of the idle status of one statement
GraceTicks == 2      \* clock ticks allowed between interrupt() and the end of the script

ExecIds == 1..MaxExec
ConnIds == 1..MaxConns
NoConn == 0
FirstConn == CHOOSE c \in ConnIds : \A d \in ConnIds : c <= d
NoExec == 0
SessionIds == 1..MaxIds
NoSession == 0
InactivityWindow == 1    \* ticks a session may be inactive before a sweep deletes it
Names == {"x", "y"}
FirstExec == CHOOSE e \in ExecIds : \A d \in ExecIds : e <= d

\* A script is the list of its top-level statements as _parse_statements
\* classifies them; a script that does not parse is the single pseudo
\* statement "syn".
UnitKinds == {"code", "md"}
Scripts == (UNION {[1..n -> UnitKinds] : n \in 1..MaxUnits}) \cup {<<"syn">>}

\* Scripts in which a top-level string literal may share its lines with
\* another statement ("mdx", as in `"title"; x = 1`): the source lines of
\* such a statement are not a literal by themselves.
LiteralScripts == UNION {[1..n -> UnitKinds \cup {"mdx"}] : n \in 1..MaxUnits}

\* --------------------------------------------------------------- variables
VARIABLES
    kpending,      \* kernel: execute requests received, idle not yet emitted
    iopub,         \* kernel: messages published on iopub, not yet read
    nextMid,       \* kernel client: next msg_id kc.execute returns
    log,           \* per execution, in order: its client events and kc.execute calls
    tasks,         \* Session: the run() task of each execute_script call
    current_task,  \* Session.current_task (NoExec for None)
    orphans,       \* to_thread reads left behind by cancelled tasks
    alive,         \* Session: FALSE once shutdown() ran
    conns,         \* server: each WebSocket connection: new, open, broken, closed
    qproc,         \* server: the process_execution_queue task of each connection
    execs,         \* server: the ExecutionState, and its task, of each execute message
    queue,         \* server: session.execution_queue
    current_execution, \* server: session.current_execution (NoExec for None)
    gen,           \* IPythonExecutor: the execute_script generator
    interrupted,   \* IPythonExecutor: interrupt() was called during a unit
    elapsed,       \* clock ticks since that interrupt()
    sessions,      \* registry: _sessions, the Session object of each id
    nobj,          \* registry: Session objects (and executors) constructed
    calls,         \* registry: the calls made and what they returned
    now,           \* registry: datetime.now(), in ticks
    last_active,   \* registry: session.last_active of the Session of each id
    busy,          \* registry: session.current_execution of that Session is set
    namespace,     \* kernel process: the names its user namespace defines
    runs,          \* the statements run and resets done on one executor
    ipy,           \* IPythonExecutor: _startup_task, km, kc and a running shutdown()
    ops,           \* the calls of start() and shutdown() and the kernel operations made
    ksm,           \* Kernel State Machine: its ExecutionState
    acts,          \* Kernel State Machine: inputs and returned Actions of its last script
    py,            \* PythonExecutor: the execute_script generator and what it yielded
    md             \* MarkdownExecutor: the execute_script generator and what it yielded

kernelVars == <<kpending, iopub, nextMid>>
sessVars == <<tasks, current_task, orphans, alive>>
srvVars == <<conns, qproc, execs, queue, current_execution>>
exeVars == <<gen, interrupted, elapsed>>
regVars == <<sessions, nobj, calls, now, last_active, busy>>
nsVars == <<namespace, runs, ipy, ops>>
ksmVars == <<ksm, acts>>
pyVars == <<py, md>>
vars == <<kernelVars, log, sessVars, srvVars, exeVars, regVars, nsVars, ksmVars,
          pyVars>>

\* ------------------------------------------------------------ log entries
Entry(k, eid, type, node, out, inv) ==
    [k |-> k, eid |-> eid, type |-> type, node |-> node, out |-> out, inv |-> inv]
\* An event handed to the client (send_fn, websocket.send_json, a yield).
Event(eid, type, node, out, inv) == Entry("event", eid, type, node, out, inv)
\* A call of kc.execute for statement `node` of execution `eid`.
KExec(eid, node) == Entry("kexec", eid, "execute", node, <<>>, FALSE)

\* The log with `entry` added to what execution e did.
Logged(e, entry) == [log EXCEPT ![e] = Append(@, entry)]

TerminalTypes == {"execution-complete", "execution-cancelled", "execution-error"}

\* -------------------------------------------------------- the Jupyter kernel
\* One request: its msg_id, the outputs emitted so far, whether it failed,
\* whether SIGINT reached it.
Request(mid) == [mid |-> mid, n |-> 0, failed |-> FALSE, intr |-> FALSE]
Msg(mid, type, val) == [mid |-> mid, type |-> type, val |-> val, text |-> "text"]

\* kc.execute(code): the request goes to the kernel, which queues it behind
\* the ones it has not finished.
KcExecute ==
    /\ kpending' = Append(kpending, Request(nextMid))
    /\ nextMid' = nextMid + 1

\* The unit being executed prints or displays something.
KernelEmits(type, val) ==
    /\ kpending # <<>>
    /\ LET r == Head(kpending) IN
        /\ ~r.failed /\ ~r.intr /\ r.n < MaxStream
        /\ iopub' = Append(iopub, Msg(r.mid, type, val))
        /\ kpending' = <<[r EXCEPT !.n = r.n + 1]>> \o Tail(kpending)
    /\ UNCHANGED nextMid

\* The unit being executed raises: an exception of its own, or the
\* KeyboardInterrupt of a SIGINT that reached it.
KernelRaises ==
    /\ kpending # <<>>
    /\ LET r == Head(kpending) IN
        /\ ~r.failed
        /\ iopub' = Append(iopub, Msg(r.mid, "error",
                        IF r.intr THEN "KeyboardInterrupt" ELSE "Exception"))
        /\ kpending' = <<[r EXCEPT !.failed = TRUE]>> \o Tail(kpending)
    /\ UNCHANGED nextMid

\* The unit being executed is over: status idle, correlated to its msg_id.
\* A unit that SIGINT reached ends with its error first.
KernelGoesIdle ==
    /\ kpending # <<>>
    /\ LET r == Head(kpending) IN
        /\ r.intr => r.failed
        /\ iopub' = Append(iopub, Msg(r.mid, "status", "idle"))
        /\ kpending' = Tail(kpending)
    /\ UNCHANGED nextMid

\* km.interrupt_kernel(): SIGINT reaches the unit being executed, if any.
InterruptKernel ==
    /\ kpending' = IF kpending = <<>> THEN kpending
                   ELSE <<[Head(kpending) EXCEPT !.intr = TRUE]>> \o Tail(kpending)
    /\ UNCHANGED <<iopub, nextMid, regVars, nsVars, ksmVars, pyVars>>

\* km.restart_kernel() and the silent setup that follows: the old process
\* is gone with its requests, and the setup reads iopub until its own idle.
RestartKernel ==
    /\ kpending' = <<>>
    /\ iopub' = <<>>
    /\ UNCHANGED nextMid

\* ------------------------------------------------------------ Session
\* Session._process_kernel_message: the output item of a kernel message,
\* <<>> for a message that carries none.
ProcessKernelMessage(m) ==
    CASE m.type = "stream" -> <<[type |-> m.val, content |-> "text"]>>
      [] m.type = "execute_result" -> <<[type |-> m.val, content |-> "repr"]>>
      [] m.type = "display_data" -> <<[type |-> m.val, content |-> "repr"]>>
      [] m.type = "error" -> <<[type |-> "error", content |-> m.val]>>
      [] OTHER -> <<>>

NoTask == [pc |-> "unborn", script |-> <<>>, sel |-> <<>>, idx |-> 0, mid |-> 0,
           out |-> <<>>, cancel |-> FALSE]

\* A finished task: nothing reads its fields any more.
DoneTask == [NoTask EXCEPT !.pc = "done"]

\* Session.cancel_execution: request the cancellation of the current task
\* unless it is done, and forget it.  A task suspended in to_thread leaves
\* its blocking read behind in the worker thread.
CancelTarget ==
    IF current_task # NoExec /\ tasks[current_task].pc # "done"
    THEN current_task ELSE NoExec

\* cancel_execution leaving the task alone.
TasksLeftAlone == tasks

TasksAfterCancel ==
    IF CancelTarget # NoExec
    THEN [tasks EXCEPT ![CancelTarget].cancel = TRUE]
    ELSE tasks

OrphansAfterCancel ==
    IF CancelTarget # NoExec /\ tasks[CancelTarget].pc = "read"
    THEN orphans + 1 ELSE orphans

CurrentAfterCancel == IF CancelTarget # NoExec THEN NoExec ELSE current_task

\* The event loop runs its ready callbacks in the order they were scheduled:
\* the step that delivers a requested cancellation was scheduled before any
\* step of a task created, or woken, after the request.
Runnable(e) == \A d \in ExecIds : ~tasks[d].cancel

\* The node_index values _parse_statements gives the statements of a script.
AllNodes(s) == [i \in 1..Len(s) |-> i - 1]

\* The line intervals <<line_start, line_end>> the statements of a script
\* can have: in script order, a statement starting no earlier than the line
\* the one before it ends on; the SyntaxError statement is one line.
Intervals == {iv \in (1..MaxLine) \X (1..MaxLine) : iv[1] <= iv[2]}
Layouts(s) ==
    IF s = <<"syn">>
    THEN {<<(<<l, l>>)>> : l \in 1..MaxLine}
    ELSE {ln \in [1..Len(s) -> Intervals] :
            \A i \in 1..(Len(s) - 1) : ln[i][2] <= ln[i + 1][1]}

\* line_range: None, or (from, to) with from <= to.
NoRange == <<>>
Ranges == Intervals \cup {NoRange}

\* The filter keeping the statements that lie wholly inside the range.
Inside(iv, r) == r[1] <= iv[1] /\ iv[2] <= r[2]

\* The filter of _execute_script_impl: a statement is dropped if it ends
\* before from_line or starts after to_line.
Overlaps(iv, r) == ~(iv[2] < r[1] \/ iv[1] > r[2])

\* The node indices of the statements _execute_script_impl keeps.
Selected(ln, r) ==
    IF r = NoRange THEN AllNodes(ln)
    ELSE SelectSeq(AllNodes(ln), LAMBDA n : Overlaps(ln[n + 1], r))

\* Session.execute_script: cancel the current task, create the new one.
ExecuteScript(e, s) ==
    /\ alive
    /\ tasks[e].pc = "unborn"
    /\ \A d \in ExecIds : d < e => tasks[d].pc # "unborn"
    /\ tasks' = [TasksAfterCancel EXCEPT
                    ![e] = [NoTask EXCEPT !.pc = "sched", !.script = s,
                                          !.sel = AllNodes(s)]]
    /\ orphans' = OrphansAfterCancel
    /\ current_task' = e
    /\ UNCHANGED <<kernelVars, log, alive, srvVars, exeVars, regVars, nsVars, ksmVars, pyVars>>

\* A call of Session.execute_script with a line range as the log of the
\* execution keeps it: the statements of the script, their lines, the range.
ExecuteCalled(e, s, ln, r) == Entry("call", e, "execute", 0, <<s, ln, r>>, FALSE)

\* Session.execute_script(script, execution_id, send_fn, line_range) for a
\* script whose statements are s on the lines ln: the task works on the
\* statements the filter keeps.
ExecuteScriptRange(e, s, ln, r) ==
    /\ alive
    /\ tasks[e].pc = "unborn"
    /\ \A d \in ExecIds : d < e => tasks[d].pc # "unborn"
    /\ LET sel == Selected(ln, r) IN
        tasks' = [TasksAfterCancel EXCEPT
                    ![e] = [NoTask EXCEPT !.pc = "sched", !.sel = sel,
                              !.script = [k \in 1..Len(sel) |-> s[sel[k] + 1]]]]
    /\ orphans' = OrphansAfterCancel
    /\ current_task' = e
    /\ log' = Logged(e, ExecuteCalled(e, s, ln, r))
    /\ UNCHANGED <<kernelVars, alive, srvVars, exeVars, regVars, nsVars, ksmVars, pyVars>>

\* interrupt() cancelling the current task as cancel_execution does.
InterruptCancels == TasksAfterCancel

\* Session.interrupt: nothing but kernel.interrupt() is called.
TasksAfterInterrupt == tasks

\* Session.interrupt: SIGINT to the kernel; the task is left alone.
Interrupt ==
    /\ alive
    /\ InterruptKernel
    /\ tasks' = TasksAfterInterrupt
    /\ UNCHANGED <<log, current_task, orphans, alive, srvVars, exeVars, regVars, nsVars, ksmVars, pyVars>>

\* A call of Session.restart as the log of the execution it found keeps it:
\* where the task of that execution was suspended.
RestartCalled(e) == Entry("call", e, "restart", 0, <<tasks[e].pc>>, FALSE)

\* Session.restart: cancel the current task, restart the kernel.
Restart ==
    /\ alive
    /\ tasks' = TasksAfterCancel
    /\ orphans' = OrphansAfterCancel
    /\ current_task' = CurrentAfterCancel
    /\ RestartKernel
    /\ log' = IF CancelTarget = NoExec THEN log
              ELSE Logged(CancelTarget, RestartCalled(CancelTarget))
    /\ UNCHANGED <<alive, srvVars, exeVars, regVars, nsVars, ksmVars, pyVars>>

\* Session.shutdown: cancel the current task, stop the channels and kill
\* the kernel.
Shutdown ==
    /\ alive
    /\ alive' = FALSE
    /\ tasks' = TasksAfterCancel
    /\ orphans' = OrphansAfterCancel
    /\ current_task' = CurrentAfterCancel
    /\ RestartKernel
    /\ UNCHANGED <<log, srvVars, exeVars, regVars, nsVars, ksmVars, pyVars>>

\* The expressions of the execution-started event: the node indices of the
\* statements that are not a syntax error.
Expressions(s) == SelectSeq([i \in 1..Len(s) |-> i - 1], LAMBDA n : s[n + 1] # "syn")

\* _execute_script_impl going to its statements without the first yield.
NoStartedEvent(e) == <<>>

\* The first yield of _execute_script_impl: execution-started with the
\* expressions of the script, each under its node index.
StartedEvent(e) ==
    LET x == Expressions(tasks[e].script) IN
    <<Event(e, "execution-started", 0,
            [k \in 1..Len(x) |-> tasks[e].sel[x[k] + 1]], FALSE)>>

\* run(), first step: _execute_script_impl parses and yields
\* execution-started, which is handed to send_fn.
TaskStart(e) ==
    /\ tasks[e].pc = "sched"
    /\ Runnable(e)
    /\ log' = [log EXCEPT ![e] = @ \o StartedEvent(e)]
    /\ tasks' = [tasks EXCEPT ![e].pc = "sendStarted"]
    /\ UNCHANGED <<kernelVars, current_task, orphans, alive, srvVars, exeVars, regVars, nsVars, ksmVars, pyVars>>

\* run() resumed with CancelledError.  A task that never ran its first step
\* ends without entering the try block; otherwise the handler hands
\* execution-cancelled to send_fn and the task ends (cancel_execution has
\* dropped the task, so nothing observes it between that send and its end).
TaskCancelled(e) ==
    /\ tasks[e].cancel
    /\ tasks' = [tasks EXCEPT ![e] = DoneTask]
    /\ IF tasks[e].pc = "sched"
       THEN UNCHANGED log
       ELSE log' = Logged(e, Event(e, "execution-cancelled", 0, <<>>, FALSE))
    /\ UNCHANGED <<kernelVars, current_task, orphans, alive, srvVars, exeVars, regVars, nsVars, ksmVars, pyVars>>

\* _parse_statements finding no top-level string literal.
NeverMarkdown(kind) == FALSE

\* _parse_statements, is_markdown: the statement is an expression that is
\* a string constant.
IsMarkdown(kind) == kind \in {"md", "mdx"}

\* The output of a markdown statement: ast.literal_eval of its source lines
\* gives the text, or raises and the output is empty.
MarkdownOutput(kind) ==
    IF kind = "md" THEN <<[type |-> "text/markdown", content |-> "literal"]>>
    ELSE <<>>

\* run() resumed after send_fn returned, inside the loop over statements:
\* the next statement is a syntax error or a markdown literal (reported at
\* once), or code (Kernel.execute sends it and waits for the first message),
\* or there is none left (execution-complete).
TaskResume(e) ==
    /\ tasks[e].pc \in {"sendStarted", "sendDone"}
    /\ Runnable(e)
    /\ LET t == tasks[e]
           i == t.idx + 1
       IN IF i > Len(t.script)
          THEN /\ log' = Logged(e, Event(e, "execution-complete", 0, <<>>, FALSE))
               /\ tasks' = [tasks EXCEPT ![e].pc = "sendFinal"]
               /\ UNCHANGED kernelVars
          ELSE IF t.script[i] = "syn"
          THEN /\ log' = Logged(e, Event(e, "expression-done", t.sel[i],
                            <<[type |-> "error", content |-> "SyntaxError"]>>, FALSE))
               /\ tasks' = [tasks EXCEPT ![e].pc = "sendDone", ![e].idx = i]
               /\ UNCHANGED kernelVars
          ELSE IF IsMarkdown(t.script[i])
          THEN /\ log' = Logged(e, Event(e, "expression-done", t.sel[i],
                            MarkdownOutput(t.script[i]), FALSE))
               /\ tasks' = [tasks EXCEPT ![e].pc = "sendDone", ![e].idx = i]
               /\ UNCHANGED kernelVars
          ELSE /\ KcExecute
               /\ UNCHANGED iopub
               /\ log' = Logged(e, KExec(e, t.sel[i]))
               /\ tasks' = [tasks EXCEPT ![e].pc = "read", ![e].idx = i,
                                         ![e].mid = nextMid, ![e].out = <<>>]
    /\ UNCHANGED <<current_task, orphans, alive, srvVars, exeVars, regVars, nsVars, ksmVars, pyVars>>

\* run() resumed after the send of its terminal event: the task is done.
TaskFinish(e) ==
    /\ tasks[e].pc = "sendFinal"
    /\ Runnable(e)
    /\ tasks' = [tasks EXCEPT ![e] = DoneTask]
    /\ UNCHANGED <<kernelVars, log, current_task, orphans, alive, srvVars, exeVars, regVars, nsVars, ksmVars, pyVars>>

\* The expression-done event of the statement the task is executing.
ExpressionDone(e, out) ==
    Event(e, "expression-done", tasks[e].sel[tasks[e].idx], out, Len(out) = 0)

\* Kernel.execute yielding whatever get_iopub_msg returned.
AnyMessage(m, mid) == TRUE

\* Kernel.execute, the test on the parent header: the message is of the
\* request whose msg_id kc.execute returned to this call.
ForThisCall(m, mid) == m.mid = mid

\* Kernel.execute, one turn of its loop: get_iopub_msg returned a message.
\* A message of another msg_id is skipped; one of this call is yielded to
\* _execute_script_impl, which appends its output item; idle ends the
\* statement, whose expression-done is handed to send_fn.
TaskRead(e) ==
    /\ tasks[e].pc = "read"
    /\ Runnable(e)
    /\ iopub # <<>>
    /\ iopub' = Tail(iopub)
    /\ LET m == Head(iopub)
           out == tasks[e].out \o ProcessKernelMessage(m)
       IN IF ~ForThisCall(m, tasks[e].mid)
          THEN UNCHANGED <<tasks, log>>
          ELSE IF m.type = "status" /\ m.val = "idle"
          THEN /\ log' = Logged(e, ExpressionDone(e, out))
               /\ tasks' = [tasks EXCEPT ![e].pc = "sendDone", ![e].out = <<>>]
          ELSE /\ tasks' = [tasks EXCEPT ![e].out = out]
               /\ UNCHANGED log
    /\ UNCHANGED <<kpending, nextMid, current_task, orphans, alive, srvVars, exeVars, regVars, nsVars, ksmVars, pyVars>>

\* Kernel.execute: get_iopub_msg raised after its timeout; the loop breaks
\* and the statement is reported with the output collected so far.
TaskReadTimeout(e) ==
    /\ tasks[e].pc = "read"
    /\ Runnable(e)
    /\ iopub = <<>>
    /\ log' = Logged(e, ExpressionDone(e, tasks[e].out))
    /\ tasks' = [tasks EXCEPT ![e].pc = "sendDone", ![e].out = <<>>]
    /\ UNCHANGED <<kernelVars, current_task, orphans, alive, srvVars, exeVars, regVars, nsVars, ksmVars, pyVars>>

\* A get_iopub_msg left behind in a worker thread by a cancelled task
\* returns: the message it took is dropped with the thread's result.
OrphanRead ==
    /\ orphans > 0
    /\ iopub # <<>>
    /\ iopub' = Tail(iopub)
    /\ orphans' = orphans - 1
    /\ UNCHANGED <<kpending, nextMid, log, tasks, current_task, alive, srvVars, exeVars, regVars, nsVars, ksmVars, pyVars>>

\* A read left behind times out.
OrphanTimeout ==
    /\ orphans > 0
    /\ iopub = <<>>
    /\ orphans' = orphans - 1
    /\ UNCHANGED <<kernelVars, log, tasks, current_task, alive, srvVars, exeVars, regVars, nsVars, ksmVars, pyVars>>

\* The kernel's own steps.
KernelStep ==
    /\ \/ KernelEmits("stream", "stdout")
       \/ KernelRaises
       \/ KernelGoesIdle
    /\ UNCHANGED <<log, sessVars, srvVars, exeVars, regVars, nsVars, ksmVars, pyVars>>

\* ------------------------------------------------ the queueing server
\* What executor._execute_code returns for a statement: no output, or an
\* error item (the statement raised, or the kernel did not answer in time).
Outputs == {<<>>, <<[type |-> "error", content |-> "Exception"]>>}

NoState == [status |-> "none", owner |-> NoConn, script |-> <<>>, idx |-> 0,
            tpc |-> "none", ws |-> NoConn, tcancel |-> FALSE]
NoProc == [pc |-> "none", cur |-> NoExec, cancel |-> FALSE]

TaskEnded(e) == execs[e].tpc \in {"none", "done", "cancelled"}

\* safe_send: the send succeeds while the connection is up.
SafeSend(c) == conns[c] = "open"

\* Task.cancel() on the task of execution e: nothing for a task that ended.
WithTaskCancelled(x, e) ==
    IF x[e].tpc \in {"none", "done", "cancelled"} THEN x
    ELSE [x EXCEPT ![e].tcancel = TRUE]

\* execute_websocket, init: the session's websocket is this connection and
\* a queue processor is started for it.
Connect(c) ==
    /\ conns[c] = "new"
    /\ \A d \in ConnIds : d < c => conns[d] # "new"
    /\ conns' = [conns EXCEPT ![c] = "open"]
    /\ qproc' = [qproc EXCEPT ![c] = [NoProc EXCEPT !.pc = "sched"]]
    /\ UNCHANGED <<kernelVars, log, sessVars, exeVars, execs, queue, current_execution, regVars, nsVars, ksmVars, pyVars>>

\* execute_websocket, an execute message: a pending ExecutionState is added
\* to the history and put on the queue.
RecvExecute(c, e, s) ==
    /\ conns[c] = "open"
    /\ execs[e].status = "none"
    /\ \A d \in ExecIds : d < e => execs[d].status # "none"
    /\ execs' = [execs EXCEPT ![e] = [NoState EXCEPT !.status = "pending",
                                                    !.owner = c, !.script = s]]
    /\ queue' = Append(queue, e)
    /\ UNCHANGED <<kernelVars, log, sessVars, exeVars, conns, qproc, current_execution, regVars, nsVars, ksmVars, pyVars>>

\* The cancel message received, as the log keeps it: the status the
\* execution had, and whether the handler took the cancelling branch.
CancelReceived(e, accepted) ==
    Entry("recv", e, "cancel", 0, <<execs[e].status>>, accepted)

\* A handler taking the cancelling branch for every cancel message.
CancelAnything(e) == TRUE

\* `if execution and execution.status == 'running' and execution.task`.
CancelAccepted(e) == execs[e].status = "running" /\ execs[e].tpc # "none"

\* The cancelling branch without its task.cancel().
MarkedCancelled(x, e) == [x EXCEPT ![e].status = "cancelled"]

\* The cancelling branch: the status becomes cancelled and the task is cancelled.
CancelRunning(x, e) == [WithTaskCancelled(x, e) EXCEPT ![e].status = "cancelled"]

\* execute_websocket, a cancel message: a running execution with a task is
\* marked cancelled, its task is cancelled and execution-cancelled is sent;
\* anything else is answered with an error.
RecvCancel(c, e) ==
    /\ conns[c] = "open"
    /\ Cardinality({i \in DOMAIN log[e] : log[e][i].k = "recv"}) < MaxCancels
    /\ IF CancelAccepted(e)
       THEN /\ execs' = CancelRunning(execs, e)
            /\ log' = [log EXCEPT ![e] = @ \o
                        <<CancelReceived(e, TRUE),
                          Event(e, "execution-cancelled", 0, <<>>, FALSE)>>]
       ELSE /\ UNCHANGED execs
            /\ log' = [log EXCEPT ![e] = @ \o
                        <<CancelReceived(e, FALSE),
                          Event(e, "error", 0, <<>>, FALSE)>>]
    /\ UNCHANGED <<kernelVars, sessVars, exeVars, conns, qproc, queue, current_execution, regVars, nsVars, ksmVars, pyVars>>

\* The executions a call finds with status running, each with its entry
\* of `entries` added to its log.
LoggedForRunning(entries) ==
    [e \in ExecIds |-> IF execs[e].status = "running"
                       THEN Append(log[e], entries[e]) ELSE log[e]]

\* session.executor.reset() as the log of an execution that was running
\* keeps it: km.restart_kernel() while the execution had this status.
ResetCalled(e) == Entry("reset", e, "reset", 0, <<execs[e].status>>, FALSE)

ResetsOf(e) == {i \in DOMAIN log[e] : log[e][i].k = "reset"}

\* A reset is modelled as long as it reaches no execution too often.
ResetAllowed ==
    \A e \in ExecIds :
        execs[e].status = "running" => Cardinality(ResetsOf(e)) < MaxResets

\* execute_websocket, a reset message: session.executor.reset() is called
\* at once, whatever the session is executing.
RecvReset(c) ==
    /\ conns[c] = "open"
    /\ ResetAllowed
    /\ \E e \in ExecIds : execs[e].status = "running"
    /\ log' = LoggedForRunning([x \in ExecIds |-> ResetCalled(x)])
    /\ UNCHANGED <<kernelVars, sessVars, exeVars, srvVars, regVars, nsVars, ksmVars, pyVars>>

\* execute_websocket, an execute message with the reset flag: the executor
\* is reset at once, then the execution is put on the queue.
RecvExecuteReset(c, e, s) ==
    /\ conns[c] = "open"
    /\ execs[e].status = "none"
    /\ \A d \in ExecIds : d < e => execs[d].status # "none"
    /\ ResetAllowed
    /\ log' = LoggedForRunning([x \in ExecIds |-> ResetCalled(x)])
    /\ execs' = [execs EXCEPT ![e] = [NoState EXCEPT !.status = "pending",
                                                    !.owner = c, !.script = s]]
    /\ queue' = Append(queue, e)
    /\ UNCHANGED <<kernelVars, sessVars, exeVars, conns, qproc, current_execution, regVars, nsVars, ksmVars, pyVars>>

\* delete_session as the log of an execution that was running keeps it.
DeleteCalled(e) == Entry("call", e, "delete", 0, <<execs[e].tpc>>, FALSE)

DeletesOf(e) == {i \in DOMAIN log[e] : log[e][i].type = "delete"}

\* The session was removed from the registry and its executor shut down.
Deleted == \E e \in ExecIds : DeletesOf(e) # {}

\* delete_session while an execution of the session is running: the
\* session leaves the registry and its executor is shut down; the execution,
\* its task and the queue are not touched.
DeleteSession ==
    /\ ~Deleted
    /\ \E e \in ExecIds : execs[e].status = "running"
    /\ log' = LoggedForRunning([x \in ExecIds |-> DeleteCalled(x)])
    /\ UNCHANGED <<kernelVars, sessVars, exeVars, srvVars, regVars, nsVars, ksmVars, pyVars>>

\* The client goes away: sends fail from now on, and the handler's next
\* receive_json raises WebSocketDisconnect.
ClientGone(c) ==
    /\ conns[c] = "open"
    /\ conns' = [conns EXCEPT ![c] = "broken"]
    /\ UNCHANGED <<kernelVars, log, sessVars, exeVars, qproc, execs, queue, current_execution, regVars, nsVars, ksmVars, pyVars>>

\* execute_websocket, WebSocketDisconnect: the queue processor is cancelled.
\* Cancelling a task that awaits another task cancels the awaited task; a
\* task whose awaited future is done gets the CancelledError at its next step.
Disconnect(c) ==
    /\ conns[c] = "broken"
    /\ conns' = [conns EXCEPT ![c] = "closed"]
    /\ LET q == qproc[c] IN
        IF q.pc \in {"none", "dead"}
        THEN UNCHANGED <<qproc, execs, regVars, nsVars, ksmVars, pyVars>>
        ELSE IF q.pc = "await" /\ ~TaskEnded(q.cur)
        THEN /\ execs' = WithTaskCancelled(execs, q.cur)
             /\ UNCHANGED qproc
        ELSE /\ qproc' = [qproc EXCEPT ![c].cancel = TRUE]
             /\ UNCHANGED execs
    /\ UNCHANGED <<kernelVars, log, sessVars, exeVars, queue, current_execution, regVars, nsVars, ksmVars, pyVars>>

\* process_execution_queue, first step: up to queue.get().
QStart(c) ==
    /\ qproc[c].pc = "sched"
    /\ ~qproc[c].cancel
    /\ qproc' = [qproc EXCEPT ![c].pc = "get"]
    /\ UNCHANGED <<kernelVars, log, sessVars, exeVars, conns, execs, queue, current_execution, regVars, nsVars, ksmVars, pyVars>>

\* process_execution_queue: queue.get() returned; the execution is made the
\* current one, marked running, and its task is created and awaited.
QGet(c) ==
    /\ qproc[c].pc = "get"
    /\ ~qproc[c].cancel
    /\ queue # <<>>
    /\ LET e == Head(queue) IN
        /\ queue' = Tail(queue)
        /\ current_execution' = e
        /\ execs' = [execs EXCEPT ![e].status = "running", ![e].tpc = "sched",
                                  ![e].ws = c]
        /\ qproc' = [qproc EXCEPT ![c].pc = "await", ![c].cur = e]
    /\ UNCHANGED <<kernelVars, log, sessVars, exeVars, conns, regVars, nsVars, ksmVars, pyVars>>

\* process_execution_queue: the awaited task ended.  If it returned, the
\* current execution is cleared and the loop goes back to queue.get(); if it
\* was cancelled, the execution is marked cancelled, the current execution
\* is cleared and the CancelledError ends the queue processor.
QTaskEnded(c) ==
    /\ qproc[c].pc = "await"
    /\ ~qproc[c].cancel
    /\ execs[qproc[c].cur].tpc \in {"done", "cancelled"}
    /\ current_execution' = NoExec
    /\ IF execs[qproc[c].cur].tpc = "done"
       THEN /\ qproc' = [qproc EXCEPT ![c].pc = "get", ![c].cur = NoExec]
            /\ UNCHANGED execs
       ELSE /\ qproc' = [qproc EXCEPT ![c] = [NoProc EXCEPT !.pc = "dead"]]
            /\ execs' = [execs EXCEPT ![qproc[c].cur].status = "cancelled"]
    /\ UNCHANGED <<kernelVars, log, sessVars, exeVars, conns, queue, regVars, nsVars, ksmVars, pyVars>>

\* process_execution_queue resumed with CancelledError: never started, it
\* just ends; at queue.get(), the outer handler cancels the task of the
\* session's current execution; at `await task` (the task had ended), the
\* execution is marked cancelled and the current execution is cleared.
QCancelled(c) ==
    /\ qproc[c].cancel
    /\ qproc' = [qproc EXCEPT ![c] = [NoProc EXCEPT !.pc = "dead"]]
    /\ IF qproc[c].pc = "await"
       THEN /\ execs' = [execs EXCEPT ![qproc[c].cur].status = "cancelled"]
            /\ current_execution' = NoExec
       ELSE IF qproc[c].pc = "get" /\ current_execution # NoExec
       THEN /\ execs' = WithTaskCancelled(execs, current_execution)
            /\ UNCHANGED current_execution
       ELSE UNCHANGED <<execs, current_execution, regVars, nsVars, ksmVars, pyVars>>
    /\ UNCHANGED <<kernelVars, log, sessVars, exeVars, conns, queue, regVars, nsVars, ksmVars, pyVars>>

\* execute_script_ws from a point where the statement loop is entered with
\* statement i next: the execution as it is when the task suspends again.
\* A cancelled status breaks the loop; after the last statement the
\* execution is completed; a markdown literal is reported at once; code is
\* handed to a worker thread, which sends it to the kernel.  A failed send
\* of expression-done returns from the task.
LoopFrom(e, i) ==
    LET x == execs[e] IN
    IF i <= Len(x.script) /\ x.status # "cancelled"
    THEN IF x.script[i] = "md"
         THEN [x EXCEPT !.idx = i,
                        !.tpc = IF SafeSend(x.ws) THEN "sendDone" ELSE "done"]
         ELSE [x EXCEPT !.idx = i, !.tpc = "thread"]
    ELSE IF x.status = "cancelled"
    THEN [x EXCEPT !.tpc = "sendFinal"]
    ELSE [x EXCEPT !.status = "completed", !.tpc = "sendFinal"]

\* What that stretch of execute_script_ws adds to the log.
LoopLog(e, i) ==
    LET x == execs[e] IN
    IF i <= Len(x.script) /\ x.status # "cancelled"
    THEN IF x.script[i] = "md"
         THEN IF SafeSend(x.ws)
              THEN <<Event(e, "expression-done", i - 1,
                        <<[type |-> "text/markdown", content |-> "literal"]>>, FALSE)>>
              ELSE <<>>
         ELSE <<KExec(e, i - 1)>>
    ELSE IF ~SafeSend(x.ws) THEN <<>>
    ELSE IF x.status = "cancelled"
    THEN <<Event(e, "execution-cancelled", 0, <<>>, FALSE)>>
    ELSE <<Event(e, "execution-complete", 0, <<>>, FALSE)>>

\* execute_script_ws, first step: parse (a SyntaxError makes the execution
\* an error, reported with execution-error) and send execution-started; a
\* failed send returns from the task.
XStart(e) ==
    /\ execs[e].tpc = "sched"
    /\ ~execs[e].tcancel
    /\ LET x == execs[e] IN
        IF x.script = <<"syn">>
        THEN /\ execs' = [execs EXCEPT ![e].status = "error", ![e].tpc = "sendFinal"]
             /\ log' = IF SafeSend(x.ws)
                       THEN Logged(e, Event(e, "execution-error", 0, <<>>, FALSE))
                       ELSE log
        ELSE IF SafeSend(x.ws)
        THEN /\ execs' = [execs EXCEPT ![e].tpc = "sendStarted"]
             /\ log' = Logged(e, Event(e, "execution-started", 0,
                                       Expressions(x.script), FALSE))
        ELSE /\ execs' = [execs EXCEPT ![e].tpc = "done"]
             /\ UNCHANGED log
    /\ UNCHANGED <<kernelVars, sessVars, exeVars, conns, qproc, queue, current_execution, regVars, nsVars, ksmVars, pyVars>>

\* execute_script_ws resumed after a send inside the loop.
XResume(e) ==
    /\ execs[e].tpc \in {"sendStarted", "sendDone"}
    /\ ~execs[e].tcancel
    /\ execs' = [execs EXCEPT ![e] = LoopFrom(e, execs[e].idx + 1)]
    /\ log' = [log EXCEPT ![e] = @ \o LoopLog(e, execs[e].idx + 1)]
    /\ UNCHANGED <<kernelVars, sessVars, exeVars, conns, qproc, queue, current_execution, regVars, nsVars, ksmVars, pyVars>>

\* execute_script_ws resumed with the output of the worker thread: the
\* result is sent as expression-done; a failed send returns from the task.
XUnitDone(e, out) ==
    /\ execs[e].tpc = "thread"
    /\ ~execs[e].tcancel
    /\ IF SafeSend(execs[e].ws)
       THEN /\ execs' = [execs EXCEPT ![e].tpc = "sendDone"]
            /\ log' = Logged(e, Event(e, "expression-done", execs[e].idx - 1,
                                      out, Len(out) = 0))
       ELSE /\ execs' = [execs EXCEPT ![e].tpc = "done"]
            /\ UNCHANGED log
    /\ UNCHANGED <<kernelVars, sessVars, exeVars, conns, qproc, queue, current_execution, regVars, nsVars, ksmVars, pyVars>>

\* execute_script_ws resumed with an exception of the worker thread:
\* kc.execute on the channels that shutdown() stopped.  The execution becomes
\* an error, reported with execution-error.
XUnitRaises(e) ==
    /\ execs[e].tpc = "thread"
    /\ ~execs[e].tcancel
    /\ Deleted
    /\ execs' = [execs EXCEPT ![e].status = "error", ![e].tpc = "sendFinal"]
    /\ log' = IF SafeSend(execs[e].ws)
              THEN Logged(e, Event(e, "execution-error", 0, <<>>, FALSE))
              ELSE log
    /\ UNCHANGED <<kernelVars, sessVars, exeVars, conns, qproc, queue, current_execution, regVars, nsVars, ksmVars, pyVars>>

\* execute_script_ws resumed after the send of its last event: it returns.
XFinish(e) ==
    /\ execs[e].tpc = "sendFinal"
    /\ ~execs[e].tcancel
    /\ execs' = [execs EXCEPT ![e].tpc = "done"]
    /\ UNCHANGED <<kernelVars, log, sessVars, exeVars, conns, qproc, queue, current_execution, regVars, nsVars, ksmVars, pyVars>>

\* execute_script_ws resumed with CancelledError: no handler catches it and
\* the task ends cancelled.
XCancelled(e) ==
    /\ execs[e].tcancel
    /\ execs' = [execs EXCEPT ![e].tpc = "cancelled", ![e].tcancel = FALSE]
    /\ UNCHANGED <<kernelVars, log, sessVars, exeVars, conns, qproc, queue, current_execution, regVars, nsVars, ksmVars, pyVars>>

\* asyncio.timeout(300) expired while the task was suspended: the execution
\* becomes an error, reported with execution-error.
XTimeout(e) ==
    /\ execs[e].tpc \in {"sendStarted", "sendDone", "thread", "sendFinal"}
    /\ execs[e].status # "error"
    /\ ~execs[e].tcancel
    /\ execs' = [execs EXCEPT ![e].status = "error", ![e].tpc = "sendFinal"]
    /\ log' = IF SafeSend(execs[e].ws)
              THEN Logged(e, Event(e, "execution-error", 0, <<>>, FALSE))
              ELSE log
    /\ UNCHANGED <<kernelVars, sessVars, exeVars, conns, qproc, queue, current_execution, regVars, nsVars, ksmVars, pyVars>>

\* ------------------------------------------------------ IPythonExecutor
\* The script the generator runs is execution FirstExec of the log.
NoGen == [pc |-> "unborn", script |-> <<>>, idx |-> 0, mid |-> 0, out |-> <<>>]

\* _execute_code making an item of every message.
AppendOutput(out, m) ==
    CASE m.type = "stream" -> Append(out, [type |-> m.val, content |-> m.text])
      [] m.type = "error" -> Append(out, [type |-> "error", content |-> m.val])
      [] OTHER -> out

\* IPythonExecutor._execute_code, one kernel message added to the output:
\* a stream message is merged into a last item of the same stream, an error
\* message becomes an error item.
CollectOutput(out, m) ==
    CASE m.type = "stream" ->
            IF out # <<>> /\ out[Len(out)].type = m.val
            THEN [out EXCEPT ![Len(out)].content = @ \o m.text]
            ELSE Append(out, [type |-> m.val, content |-> m.text])
      [] m.type = "error" -> Append(out, [type |-> "error", content |-> m.val])
      [] OTHER -> out

\* The loop of execute_script going on after every result.
NeverHalts(out) == FALSE

\* IPythonExecutor._has_error as the loop of execute_script uses it: the
\* loop is left after a result whose output has an error item.
HaltOnError(out) == \E i \in DOMAIN out : out[i].type = "error"

\* execute_script called and run to its first yield: the expressions of the
\* script, or the place of the SyntaxError.
IPyExecuteScript(s) ==
    /\ gen.pc = "unborn"
    /\ gen' = [NoGen EXCEPT !.pc = IF s = <<"syn">> THEN "syn" ELSE "yielded",
                            !.script = s]
    /\ log' = Logged(FirstExec, Event(FirstExec, "expressions", 0,
                        IF s = <<"syn">> THEN <<0>> ELSE Expressions(s), FALSE))
    /\ UNCHANGED <<kernelVars, sessVars, srvVars, interrupted, elapsed, regVars, nsVars, ksmVars, pyVars>>

\* The generator resumed after the expressions of a script that does not
\* parse: the error result is yielded.
IPySyntaxError ==
    /\ gen.pc = "syn"
    /\ gen' = [gen EXCEPT !.pc = "last"]
    /\ log' = Logged(FirstExec, Event(FirstExec, "result", 0,
                        <<[type |-> "error", content |-> "SyntaxError"]>>, FALSE))
    /\ UNCHANGED <<kernelVars, sessVars, srvVars, interrupted, elapsed, regVars, nsVars, ksmVars, pyVars>>

\* The generator resumed after a yield of the statement loop: it returns
\* after a result with an error and after the last statement; it yields the
\* result of a markdown literal; it sends code to the kernel and waits for
\* the first message.
IPyResume ==
    /\ gen.pc \in {"yielded", "last"}
    /\ LET i == gen.idx + 1 IN
        IF \/ gen.pc = "last"
           \/ gen.idx > 0 /\ HaltOnError(gen.out)
           \/ i > Len(gen.script)
        THEN /\ gen' = [gen EXCEPT !.pc = "done"]
             /\ UNCHANGED <<kernelVars, log, regVars, nsVars, ksmVars, pyVars>>
        ELSE IF gen.script[i] = "md"
        THEN /\ gen' = [gen EXCEPT !.idx = i,
                          !.out = <<[type |-> "text/markdown", content |-> "literal"]>>]
             /\ log' = Logged(FirstExec, Event(FirstExec, "result", i - 1,
                          <<[type |-> "text/markdown", content |-> "literal"]>>, FALSE))
             /\ UNCHANGED kernelVars
        ELSE /\ KcExecute
             /\ UNCHANGED iopub
             /\ gen' = [gen EXCEPT !.pc = "wait", !.idx = i, !.mid = nextMid,
                                   !.out = <<>>]
             /\ log' = Logged(FirstExec, KExec(FirstExec, i - 1))
    /\ UNCHANGED <<sessVars, srvVars, interrupted, elapsed, regVars, nsVars, ksmVars, pyVars>>

\* A message of the statement being executed, as the log keeps what
\* _execute_code took from kc.get_iopub_msg().
Received(m) == Entry("read", FirstExec, m.type, gen.idx - 1, <<m>>, FALSE)

\* on_stream called with the output list before the message was added.
StaleUpdate(before, after) ==
    Entry("stream", FirstExec, "on_stream", gen.idx - 1, before, FALSE)

\* stream_cb, the call on_stream(line_start, line_end, updated_output): the
\* lines are those of the statement the loop of execute_script is at.
StreamUpdate(before, after) ==
    Entry("stream", FirstExec, "on_stream", gen.idx - 1, after, FALSE)

\* _execute_code, kc.get_iopub_msg() returned a message: one of another
\* request is skipped, idle ends the statement and its result is yielded,
\* anything else is collected, and on_stream is called after a stream
\* message.  Without a message the call does not return.
IPyRead ==
    /\ gen.pc = "wait"
    /\ iopub # <<>>
    /\ iopub' = Tail(iopub)
    /\ LET m == Head(iopub)
           out == CollectOutput(gen.out, m)
       IN
        IF m.mid # gen.mid
        THEN UNCHANGED <<gen, log>>
        ELSE IF m.type = "status"
        THEN /\ gen' = [gen EXCEPT !.pc = "yielded"]
             /\ log' = Logged(FirstExec, Event(FirstExec, "result", gen.idx - 1,
                                               gen.out, Len(gen.out) = 0))
        ELSE /\ gen' = [gen EXCEPT !.out = out]
             /\ log' = [log EXCEPT ![FirstExec] = @ \o <<Received(m)>> \o
                            (IF m.type = "stream"
                             THEN <<StreamUpdate(gen.out, out)>> ELSE <<>>)]
    /\ UNCHANGED <<kpending, nextMid, sessVars, srvVars, interrupted, elapsed, regVars, nsVars, ksmVars, pyVars>>

\* IPythonExecutor.interrupt(): km.interrupt_kernel(), nothing else.
IPyInterrupt ==
    /\ gen.pc \notin {"unborn", "done"}
    /\ InterruptKernel
    /\ interrupted' = (interrupted \/ gen.pc = "wait")
    /\ UNCHANGED <<log, sessVars, srvVars, gen, elapsed, regVars, nsVars, ksmVars, pyVars>>

\* Time passes after the interrupt while the script has not finished.
Tick ==
    /\ interrupted
    /\ gen.pc # "done"
    /\ elapsed < GraceTicks
    /\ elapsed' = elapsed + 1
    /\ UNCHANGED <<kernelVars, log, sessVars, srvVars, gen, interrupted, regVars, nsVars, ksmVars, pyVars>>

\* ------------------------------------------------- the session registry
\* `session_id in _sessions` never finding the id.
NeverRegistered(id) == FALSE

\* `session_id in _sessions`.
Registered(id) == sessions[id] # NoSession

Call(op, id, ret, made) == [op |-> op, id |-> id, ret |-> ret, made |-> made]

\* get_or_create_session / get_session: an id that is not in the registry
\* gets a new Session, with its executor; the Session of the id is returned.
GetOrCreateSession(id) ==
    /\ Len(calls) < MaxCalls
    /\ IF Registered(id)
       THEN /\ UNCHANGED <<sessions, nobj, last_active>>
            /\ calls' = Append(calls, Call("get", id, sessions[id], FALSE))
       ELSE /\ nobj' = nobj + 1
            /\ sessions' = [sessions EXCEPT ![id] = nobj + 1]
            /\ last_active' = [last_active EXCEPT ![id] = now]
            /\ calls' = Append(calls, Call("get", id, nobj + 1, TRUE))
    /\ UNCHANGED <<kernelVars, log, sessVars, srvVars, exeVars, nsVars, now, busy, ksmVars, pyVars>>

\* delete_session: an id that is in the registry is popped and its executor
\* shut down.
DeleteSessionId(id) ==
    /\ Len(calls) < MaxCalls
    /\ sessions' = IF Registered(id) THEN [sessions EXCEPT ![id] = NoSession]
                   ELSE sessions
    /\ last_active' = [last_active EXCEPT ![id] = 0]
    /\ busy' = [busy EXCEPT ![id] = FALSE]
    /\ calls' = Append(calls, Call("delete", id, sessions[id], FALSE))
    /\ UNCHANGED <<kernelVars, log, sessVars, srvVars, exeVars, nobj, nsVars, now, ksmVars, pyVars>>

\* The sweep deleting every session that has been inactive for the window.
Stale(id) == Registered(id) /\ last_active[id] < now - InactivityWindow

\* cleanup_task, the test of the sweep: the session has been inactive for
\* the window and has no current execution.
Inactive(id) ==
    /\ Registered(id)
    /\ last_active[id] < now - InactivityWindow
    /\ ~busy[id]

\* cleanup_task, one sweep: the sessions that pass the test are deleted.
CleanupSweep ==
    /\ Len(calls) < MaxCalls
    /\ LET to_remove == {id \in SessionIds : Inactive(id)} IN
        /\ sessions' = [id \in SessionIds |->
                            IF id \in to_remove THEN NoSession ELSE sessions[id]]
        /\ last_active' = [id \in SessionIds |->
                            IF id \in to_remove THEN 0 ELSE last_active[id]]
        /\ calls' = Append(calls, Call("cleanup", 0, Cardinality(to_remove), FALSE))
    /\ UNCHANGED <<kernelVars, log, sessVars, srvVars, exeVars, nobj, nsVars, now, busy, ksmVars, pyVars>>

\* execute_websocket, a message for the session: last_active is set.
Touch(id) ==
    /\ Registered(id)
    /\ last_active' = [last_active EXCEPT ![id] = now]
    /\ UNCHANGED <<kernelVars, log, sessVars, srvVars, exeVars, nsVars,
                   sessions, nobj, calls, now, busy, ksmVars, pyVars>>

\* process_execution_queue: current_execution is set for the execution
\* taken from the queue, and cleared when its task has ended.
SetCurrent(id, b) ==
    /\ Registered(id)
    /\ busy[id] # b
    /\ busy' = [busy EXCEPT ![id] = b]
    /\ UNCHANGED <<kernelVars, log, sessVars, srvVars, exeVars, nsVars,
                   sessions, nobj, calls, now, last_active, ksmVars, pyVars>>

\* Time passes.
ClockTick ==
    /\ now < MaxTime
    /\ now' = now + 1
    /\ UNCHANGED <<kernelVars, log, sessVars, srvVars, exeVars, nsVars,
                   sessions, nobj, calls, last_active, busy, ksmVars, pyVars>>

\* ------------------------------------- the namespace of the kernel process
\* km.restart_kernel() keeping the process.
KeptAfterRestart(ns) == ns

\* km.restart_kernel(): the new kernel process defines none of the names.
AfterRestart(ns) == {}

Run(op, name, ok) == [op |-> op, name |-> name, ok |-> ok]

\* IPythonExecutor.execute_script with the one statement `name = 1`, run to
\* its end: the kernel process defines the name.
RunDefine(n) ==
    /\ Len(runs) < MaxRuns
    /\ namespace' = namespace \cup {n}
    /\ runs' = Append(runs, Run("def", n, TRUE))
    /\ UNCHANGED <<kernelVars, log, sessVars, srvVars, exeVars, regVars, ipy, ops, ksmVars, pyVars>>

\* IPythonExecutor.execute_script with the one statement `name`, run to its
\* end: the result has an error item (NameError) unless the kernel process
\* defines the name.
RunUse(n) ==
    /\ Len(runs) < MaxRuns
    /\ runs' = Append(runs, Run("use", n, n \in namespace))
    /\ UNCHANGED <<kernelVars, log, sessVars, srvVars, exeVars, regVars, namespace, ipy, ops, ksmVars, pyVars>>

\* IPythonExecutor.reset(): the kernel is restarted and a new client is
\* connected to it.
ResetExecutor ==
    /\ Len(runs) < MaxRuns
    /\ namespace' = AfterRestart(namespace)
    /\ runs' = Append(runs, Run("reset", "", TRUE))
    /\ UNCHANGED <<kernelVars, log, sessVars, srvVars, exeVars, regVars, ipy, ops, ksmVars, pyVars>>

\* ------------------------------- IPythonExecutor: startup and shutdown
\* IPythonExecutor.__init__: no startup task (attr: _startup_task is set;
\* task: where the task is), no manager, no client; sh: where a shutdown()
\* in progress is suspended.  gen numbers the managers _do_start has made,
\* killing is the manager whose shutdown_kernel is awaited, live the
\* managers whose kernel process runs.
NoKernel == [attr |-> FALSE, task |-> "none", cancel |-> FALSE,
             km |-> FALSE, kc |-> FALSE, sh |-> "idle",
             gen |-> 0, killing |-> 0, live |-> {}]

Count(seq, x) == Cardinality({i \in DOMAIN seq : seq[i] = x})

\* start(): the startup task is created unless there is one.
Start ==
    /\ ipy.sh = "idle"
    /\ Count(ops, "start") < MaxStarts
    /\ ipy' = IF ipy.attr THEN ipy
              ELSE [ipy EXCEPT !.attr = TRUE, !.task = "created", !.cancel = FALSE]
    /\ ops' = Append(ops, "start")
    /\ UNCHANGED <<kernelVars, log, sessVars, srvVars, exeVars, regVars, namespace, runs, ksmVars, pyVars>>

\* wait_ready(), called at any moment, also while a shutdown() is suspended:
\* the startup task is created unless there is one; the caller then awaits it.
WaitReady ==
    /\ Count(ops, "wait_ready") < MaxStarts
    /\ ipy' = IF ipy.attr THEN ipy
              ELSE [ipy EXCEPT !.attr = TRUE, !.task = "created", !.cancel = FALSE]
    /\ ops' = Append(ops, "wait_ready")
    /\ UNCHANGED <<kernelVars, log, sessVars, srvVars, exeVars, regVars, namespace, runs, ksmVars, pyVars>>

\* _do_start, from one await to the next: the manager is made and
\* start_kernel awaited; the client is made, its channels are started and
\* wait_for_ready awaited (with self.km None by then, `self.km.client()`
\* raises and the task ends); the setup is done.
StartupStep ==
    /\ ~ipy.cancel
    /\ \/ /\ ipy.task = "created"
          /\ ipy' = [ipy EXCEPT !.task = "start_kernel", !.km = TRUE,
                                !.gen = @ + 1]
          /\ ops' = Append(ops, "start_kernel")
       \/ /\ ipy.task = "start_kernel"
          /\ ipy.km
          /\ ipy' = [ipy EXCEPT !.task = "wait_for_ready", !.kc = TRUE,
                                !.live = @ \cup {ipy.gen}]
          /\ ops' = Append(ops, "start_channels")
       \/ /\ ipy.task = "start_kernel"
          /\ ~ipy.km
          /\ ipy' = [ipy EXCEPT !.task = "failed", !.live = @ \cup {ipy.gen}]
          /\ UNCHANGED ops
       \/ /\ ipy.task = "wait_for_ready"
          /\ ipy' = [ipy EXCEPT !.task = "done"]
          /\ UNCHANGED ops
    /\ UNCHANGED <<kernelVars, log, sessVars, srvVars, exeVars, regVars, namespace, runs, ksmVars, pyVars>>

\* _do_start resumed with CancelledError: the task ends where it is.
StartupCancelled ==
    /\ ipy.cancel
    /\ ipy.task \in {"created", "start_kernel", "wait_for_ready"}
    /\ ipy' = [ipy EXCEPT !.task = "cancelled"]
    /\ UNCHANGED <<kernelVars, log, sessVars, srvVars, exeVars, regVars, namespace, runs, ops, ksmVars, pyVars>>

\* shutdown() returning with the manager still set.
ManagerKept(x) == [x EXCEPT !.sh = "idle"]

\* shutdown(), after km.shutdown_kernel(now=True) returned, timed out or
\* raised: the manager is dropped.
ManagerDropped(x) == [x EXCEPT !.sh = "idle", !.km = FALSE]

\* shutdown() from `self._startup_task = None` to its next await: the
\* channels of a client are stopped and the client dropped; the kernel of a
\* manager is shut down, which is awaited.
ShutdownBody(x, done) ==
    /\ ipy' = [x EXCEPT !.attr = FALSE, !.kc = FALSE,
                        !.sh = IF x.km THEN "kill" ELSE "idle",
                        !.killing = IF x.km THEN x.gen ELSE 0]
    /\ ops' = done \o (IF x.kc THEN <<"stop_channels">> ELSE <<>>)
                   \o (IF x.km THEN <<"shutdown_kernel">> ELSE <<"return">>)

\* shutdown() called: a startup task that is not done is cancelled and
\* awaited; otherwise the body runs at once.
ShutdownCall ==
    /\ ipy.sh = "idle"
    /\ Count(ops, "shutdown") < MaxShutdowns
    /\ IF ipy.attr /\ ipy.task \notin {"done", "cancelled", "failed"}
       THEN /\ ipy' = [ipy EXCEPT !.cancel = TRUE, !.sh = "join"]
            /\ ops' = ops \o <<"shutdown", "cancel">>
       ELSE ShutdownBody(ipy, Append(ops, "shutdown"))
    /\ UNCHANGED <<kernelVars, log, sessVars, srvVars, exeVars, regVars, namespace, runs, ksmVars, pyVars>>

\* shutdown() resumed: after the cancelled startup task has ended, or after
\* shutdown_kernel.
ShutdownResume ==
    /\ \/ /\ ipy.sh = "join"
          /\ ipy.task = "cancelled"
          /\ ShutdownBody(ipy, ops)
       \/ /\ ipy.sh = "kill"
          /\ ipy' = [ManagerDropped(ipy) EXCEPT !.killing = 0,
                                                !.live = @ \ {ipy.killing}]
          /\ ops' = Append(ops, "return")
    /\ UNCHANGED <<kernelVars, log, sessVars, srvVars, exeVars, regVars, namespace, runs, ksmVars, pyVars>>

\* ------------------------------------------------ Kernel State Machine
\* ExecutionState: Idle, or Running / Interrupting with the number of units
\* of the script, the index of the current unit, whether it failed and the
\* stream messages it has had.
NoMachine == [state |-> "Idle", units |-> 0, idx |-> 0, failed |-> FALSE, n |-> 0]

\* An input of the machine and an Action it returns.
In(type) == [io |-> "in", type |-> type, unit |-> 0]
Out(type, unit) == [io |-> "out", type |-> type, unit |-> unit]

\* onExecuteScript sending every unit to the kernel at once.
AllAtOnce(n) ==
    <<Out("Started", 0)>> \o [k \in 1..n |-> Out("ExecuteCode", k - 1)]

\* onExecuteScript in Idle: Started, then ExecuteCode for the first unit.
FirstActions(n) == <<Out("Started", 0), Out("ExecuteCode", 0)>>

\* onExecuteScript with n executable units: Busy unless the state is Idle.
OnExecuteScript(n) ==
    /\ IF ksm.state # "Idle"
       THEN /\ Count(acts, In("execute")) < MaxExec
            /\ acts' = acts \o <<In("execute"), Out("Busy", 0)>>
            /\ UNCHANGED ksm
       ELSE /\ acts' = <<In("execute")>> \o FirstActions(n)
            /\ ksm' = [NoMachine EXCEPT !.state = "Running", !.units = n]
    /\ UNCHANGED <<kernelVars, log, sessVars, srvVars, exeVars, regVars, nsVars, pyVars>>

\* onKernelMessage: a stream message gives a StreamUpdate, an error marks
\* the unit failed, the idle status completes the unit: UnitResult, then
\* Cancelled after a failed unit, ExecuteCode for the next pending unit, or
\* Complete.
OnKernelMessage(type) ==
    /\ ksm.state # "Idle"
    /\ CASE type = "stream" ->
              /\ ksm.n < MaxStream
              /\ ksm' = [ksm EXCEPT !.n = @ + 1]
              /\ acts' = acts \o <<In(type), Out("StreamUpdate", ksm.idx)>>
         [] type = "error" ->
              /\ ~ksm.failed
              /\ ksm' = [ksm EXCEPT !.failed = TRUE]
              /\ acts' = Append(acts, In(type))
         [] type = "idle" ->
              IF ksm.failed
              THEN /\ ksm' = [ksm EXCEPT !.state = "Idle"]
                   /\ acts' = acts \o <<In(type), Out("UnitResult", ksm.idx),
                                        Out("Cancelled", ksm.idx + 1)>>
              ELSE IF ksm.idx + 1 < ksm.units
              THEN /\ ksm' = [ksm EXCEPT !.state = "Running", !.idx = @ + 1,
                                         !.n = 0]
                   /\ acts' = acts \o <<In(type), Out("UnitResult", ksm.idx),
                                        Out("ExecuteCode", ksm.idx + 1)>>
              ELSE /\ ksm' = [ksm EXCEPT !.state = "Idle"]
                   /\ acts' = acts \o <<In(type), Out("UnitResult", ksm.idx),
                                        Out("Complete", 0)>>
    /\ UNCHANGED <<kernelVars, log, sessVars, srvVars, exeVars, regVars, nsVars, pyVars>>

\* onInterrupt, in Running: Interrupting, and InterruptKernel is returned.
OnInterrupt ==
    /\ ksm.state = "Running"
    /\ ksm' = [ksm EXCEPT !.state = "Interrupting"]
    /\ acts' = acts \o <<In("interrupt"), Out("InterruptKernel", 0)>>
    /\ UNCHANGED <<kernelVars, log, sessVars, srvVars, exeVars, regVars, nsVars, pyVars>>

\* ------------------------------------------- in-process PythonExecutor
\* What eval() of a compiled statement does: return, raise an Exception, or
\* raise a BaseException that is not an Exception (SystemExit,
\* KeyboardInterrupt).
Outcomes == {"ok", "raise", "exit"}
PyScripts ==
    {<<"syn">>} \cup UNION {[1..n -> Outcomes] : n \in 1..MaxUnits}

\* The generator execute_script returns: not created, suspended before
\* statement i of the ones in range, exhausted, or ended by an exception.
NoGenerator ==
    [pc |-> "none", script |-> <<>>, lines |-> <<>>, range |-> <<>>,
     sel |-> <<>>, i |-> 1, results |-> <<>>]

\* ExecutionResult: node_index, the kind of its output, is_invisible.
Result(node, kind) == [node |-> node, out |-> kind, inv |-> kind = "none"]

\* execute_statement: `except Exception` turns an Exception into an error
\* item; any other BaseException leaves execute_statement.
Caught(outcome) == outcome = "raise"

\* execute_script(script, line_range) is called: the generator is created.
PyExecuteScript(s, ln, r) ==
    /\ py.pc = "none"
    /\ py' = [NoGenerator EXCEPT !.pc = "suspended", !.script = s,
                                 !.lines = ln, !.range = r,
                                 !.sel = IF s = <<"syn">> THEN <<0>>
                                         ELSE Selected(ln, r)]
    /\ UNCHANGED <<kernelVars, log, sessVars, srvVars, exeVars, regVars, nsVars,
                   ksmVars, md>>

\* next() on the generator: the SyntaxError result, or the next statement in
\* range is executed and its result yielded; StopIteration when none is left.
PyNext ==
    /\ py.pc = "suspended"
    /\ IF py.i > Len(py.sel)
       THEN py' = [py EXCEPT !.pc = "done"]
       ELSE LET node == py.sel[py.i]
                outcome == py.script[node + 1]
            IN IF outcome = "syn"
               THEN py' = [py EXCEPT !.i = @ + 1,
                                     !.results = Append(@, Result(0, "error"))]
               ELSE IF outcome = "ok"
               THEN py' = [py EXCEPT !.i = @ + 1,
                                     !.results = Append(@, Result(node, "none"))]
               ELSE IF Caught(outcome)
               THEN py' = [py EXCEPT !.i = @ + 1,
                                     !.results = Append(@, Result(node, "error"))]
               ELSE py' = [py EXCEPT !.pc = "raised"]
    /\ UNCHANGED <<kernelVars, log, sessVars, srvVars, exeVars, regVars, nsVars,
                   ksmVars, md>>

\* --------------------------------------------------- MarkdownExecutor
\* The start lines of the top-level blocks of a script, in ascending order.
RECURSIVE Ascending(_)
Ascending(S) ==
    IF S = {} THEN <<>>
    ELSE LET least == CHOOSE x \in S : \A y \in S : x <= y
         IN <<least>> \o Ascending(S \ {least})

\* _chunk_ranges: one chunk per block start, the first pulled back to line
\* 1, each ending before the next start, the last at the last line.
ChunkRanges(blocks, line_count) ==
    IF blocks = {} THEN <<(<<1, line_count>>)>>
    ELSE LET found == Ascending(blocks)
             starts == [found EXCEPT ![1] = 1]
         IN [k \in DOMAIN starts |->
                IF k + 1 <= Len(starts)
                THEN <<starts[k],
                       IF starts[k] > starts[k + 1] - 1 THEN starts[k]
                       ELSE starts[k + 1] - 1>>
                ELSE <<starts[k], line_count>>]

\* The chunks execute_script keeps: those overlapping line_range.
Filtered(chunks, r) ==
    IF r = NoRange THEN chunks
    ELSE SelectSeq(chunks, LAMBDA c : Overlaps(c, r))

\* The generator execute_script returns, before it is created.
NoRender ==
    [pc |-> "none", line_count |-> 0, range |-> NoRange, chunks |-> <<>>,
     i |-> 0, events |-> <<>>]

\* The events the generator yields.
ExpressionsEvent(chunks) == [type |-> "expressions", lines |-> chunks]
ChunkResult(c, kind) == [type |-> kind, lines |-> <<c>>]

\* execute_script(script, line_range) for a script of line_count lines with
\* top-level blocks starting on the lines `blocks`; a script with no block
\* is blank.
MdExecuteScript(line_count, blocks, r) ==
    /\ md.pc = "none"
    /\ md' = [NoRender EXCEPT
                !.pc = "suspended", !.line_count = line_count, !.range = r,
                !.chunks = IF blocks = {} THEN <<(<<1, 1>>)>>
                           ELSE Filtered(ChunkRanges(blocks, line_count), r)]
    /\ UNCHANGED <<kernelVars, log, sessVars, srvVars, exeVars, regVars, nsVars,
                   ksmVars, py>>

\* The generator is resumed: the expressions event first, then one result
\* per chunk, html or the error convert() raised; then it is exhausted.
MdNext ==
    /\ md.pc = "suspended"
    /\ IF md.i = 0
       THEN md' = [md EXCEPT !.i = 1,
                             !.events = <<ExpressionsEvent(md.chunks)>>]
       ELSE IF md.i > Len(md.chunks)
       THEN md' = [md EXCEPT !.pc = "done"]
       ELSE \E kind \in {"text/html", "error"} :
                md' = [md EXCEPT !.i = @ + 1,
                                 !.events = Append(@, ChunkResult(md.chunks[md.i], kind))]
    /\ UNCHANGED <<kernelVars, log, sessVars, srvVars, exeVars, regVars, nsVars,
                   ksmVars, py>>

\* --------------------------------------------------------- specifications
InitKernel ==
    /\ kpending = <<>>
    /\ iopub = <<>>
    /\ nextMid = 1

InitSession ==
    /\ tasks = [e \in ExecIds |-> NoTask]
    /\ current_task = NoExec
    /\ orphans = 0
    /\ alive = TRUE

InitServer ==
    /\ conns = [c \in ConnIds |-> "new"]
    /\ qproc = [c \in ConnIds |-> NoProc]
    /\ execs = [e \in ExecIds |-> NoState]
    /\ queue = <<>>
    /\ current_execution = NoExec

InitExecutor ==
    /\ gen = NoGen
    /\ interrupted = FALSE
    /\ elapsed = 0

InitRegistry ==
    /\ sessions = [id \in SessionIds |-> NoSession]
    /\ nobj = 0
    /\ calls = <<>>
    /\ now = 0
    /\ last_active = [id \in SessionIds |-> 0]
    /\ busy = [id \in SessionIds |-> FALSE]

InitPython ==
    /\ py = NoGenerator
    /\ md = NoRender

InitMachine ==
    /\ ksm = NoMachine
    /\ acts = <<>>

InitNamespace ==
    /\ namespace = {}
    /\ runs = <<>>
    /\ ipy = NoKernel
    /\ ops = <<>>

Init ==
    /\ InitKernel
    /\ log = [e \in ExecIds |-> <<>>]
    /\ InitSession
    /\ InitServer
    /\ InitExecutor
    /\ InitRegistry
    /\ InitNamespace
    /\ InitMachine
    /\ InitPython

NextSession ==
    \/ \E e \in ExecIds, s \in Scripts : ExecuteScript(e, s)
    \/ Interrupt
    \/ Restart
    \/ Shutdown
    \/ \E e \in ExecIds : TaskStart(e)
    \/ \E e \in ExecIds : TaskCancelled(e)
    \/ \E e \in ExecIds : TaskResume(e)
    \/ \E e \in ExecIds : TaskFinish(e)
    \/ \E e \in ExecIds : TaskRead(e)
    \/ \E e \in ExecIds : TaskReadTimeout(e)
    \/ OrphanRead
    \/ OrphanTimeout
    \/ KernelStep

SpecSession == Init /\ [][NextSession]_vars

\* A Session that is given one script, with interrupt, restart and shutdown
\* called at any moment.  A read that a cancelled task left behind finds
\* the channel empty: the restart that cancelled the task emptied it and no
\* second script is sent.
NextSessionOne ==
    \/ \E s \in Scripts : ExecuteScript(FirstExec, s)
    \/ Interrupt
    \/ Restart
    \/ Shutdown
    \/ TaskStart(FirstExec)
    \/ TaskCancelled(FirstExec)
    \/ TaskResume(FirstExec)
    \/ TaskFinish(FirstExec)
    \/ TaskRead(FirstExec)
    \/ TaskReadTimeout(FirstExec)
    \/ OrphanTimeout
    \/ KernelStep

SpecSessionOne == Init /\ [][NextSessionOne]_vars

\* A Session that runs one script whose string literals may share their
\* lines with other statements.
NextSessionLiteral ==
    \/ \E s \in LiteralScripts : ExecuteScript(FirstExec, s)
    \/ TaskStart(FirstExec)
    \/ TaskResume(FirstExec)
    \/ TaskFinish(FirstExec)
    \/ TaskRead(FirstExec)
    \/ TaskReadTimeout(FirstExec)
    \/ KernelStep

SpecSessionLiteral == Init /\ [][NextSessionLiteral]_vars

\* A Session that runs one script while interrupt() is called at any moment.
NextSessionInterrupt ==
    \/ \E s \in Scripts : ExecuteScript(FirstExec, s)
    \/ Interrupt
    \/ TaskStart(FirstExec)
    \/ TaskResume(FirstExec)
    \/ TaskFinish(FirstExec)
    \/ TaskRead(FirstExec)
    \/ TaskReadTimeout(FirstExec)
    \/ KernelStep

SpecSessionInterrupt == Init /\ [][NextSessionInterrupt]_vars

\* A Session that is given one script with a line range and runs it.
NextSessionRange ==
    \/ /\ tasks[FirstExec].pc = "unborn"
       /\ \E s \in Scripts : \E ln \in Layouts(s) : \E r \in Ranges :
            ExecuteScriptRange(FirstExec, s, ln, r)
    \/ TaskStart(FirstExec)
    \/ TaskResume(FirstExec)
    \/ TaskFinish(FirstExec)
    \/ TaskRead(FirstExec)
    \/ TaskReadTimeout(FirstExec)
    \/ KernelStep

SpecSessionRange == Init /\ [][NextSessionRange]_vars

\* What the server does by itself while nothing is cancelled: the steps of
\* its tasks.
ServerRuns ==
    \/ \E c \in ConnIds : QStart(c)
    \/ \E c \in ConnIds : QGet(c)
    \/ \E c \in ConnIds : QTaskEnded(c)
    \/ \E e \in ExecIds : XStart(e)
    \/ \E e \in ExecIds : XResume(e)
    \/ \E e \in ExecIds, out \in Outputs : XUnitDone(e, out)
    \/ \E e \in ExecIds : XFinish(e)

\* What the server does by itself.
ServerStep ==
    \/ ServerRuns
    \/ \E c \in ConnIds : QCancelled(c)
    \/ \E e \in ExecIds : XCancelled(e)

\* A session with one client: everything the client and the clock can do.
NextServer ==
    \/ Connect(FirstConn)
    \/ \E e \in ExecIds, s \in Scripts : RecvExecute(FirstConn, e, s)
    \/ \E e \in ExecIds : RecvCancel(FirstConn, e)
    \/ ClientGone(FirstConn)
    \/ Disconnect(FirstConn)
    \/ \E e \in ExecIds : XTimeout(e)
    \/ ServerStep

SpecServer == Init /\ [][NextServer]_vars

\* A session with one client that sends one execute message, and cancel
\* messages for it.
NextServerOne ==
    \/ Connect(FirstConn)
    \/ \E s \in Scripts : RecvExecute(FirstConn, FirstExec, s)
    \/ RecvCancel(FirstConn, FirstExec)
    \/ ClientGone(FirstConn)
    \/ Disconnect(FirstConn)
    \/ DeleteSession
    \/ XTimeout(FirstExec)
    \/ XUnitRaises(FirstExec)
    \/ ServerStep

SpecServerOne == Init /\ [][NextServerOne]_vars

\* A session with one client that sends execute messages, with and without
\* the reset flag, and reset messages; nothing is cancelled.
NextServerReset ==
    \/ Connect(FirstConn)
    \/ \E e \in ExecIds, s \in Scripts : RecvExecute(FirstConn, e, s)
    \/ \E e \in ExecIds, s \in Scripts : RecvExecuteReset(FirstConn, e, s)
    \/ RecvReset(FirstConn)
    \/ ServerRuns

SpecServerReset == Init /\ [][NextServerReset]_vars

\* A session several connections were opened on with the same sessionId,
\* each sending execute messages; nothing is cancelled.
NextServerShared ==
    \/ \E c \in ConnIds : Connect(c)
    \/ \E c \in ConnIds, e \in ExecIds, s \in Scripts : RecvExecute(c, e, s)
    \/ ServerRuns

SpecServerShared == Init /\ [][NextServerShared]_vars

\* A session whose first client sends execute messages and goes away, and
\* which later connections are opened on with the same sessionId.
NextServerReconnect ==
    \/ \E c \in ConnIds : Connect(c)
    \/ \E e \in ExecIds, s \in Scripts : RecvExecute(FirstConn, e, s)
    \/ ClientGone(FirstConn)
    \/ Disconnect(FirstConn)
    \/ ServerStep

SpecServerReconnect == Init /\ [][NextServerReconnect]_vars

\* One script run through IPythonExecutor.execute_script by a consumer that
\* takes every event, with interrupt() called at any moment.
NextExec ==
    \/ \E s \in Scripts : IPyExecuteScript(s)
    \/ IPySyntaxError
    \/ IPyResume
    \/ IPyRead
    \/ IPyInterrupt
    \/ Tick
    \/ KernelStep

SpecExec == Init /\ [][NextExec]_vars

\* The messages a kernel can have published for a statement before its
\* idle status: stream texts, an error, and a message left from a request
\* made before this one.
FeedMsgs ==
    {[Msg(1, "stream", n) EXCEPT !.text = t] : n \in {"stdout", "stderr"}, t \in {"a", "b"}}
        \cup {Msg(1, "error", "Exception"), Msg(0, "stream", "stdout")}
Feeds == UNION {[1..n -> FeedMsgs] : n \in 0..MaxFeed}

\* execute_script at the first statement of a script of one or two, waiting
\* in _execute_code for the messages the kernel has published for it.
InitCollect ==
    /\ kpending = <<>>
    /\ iopub \in {f \o <<Msg(1, "status", "idle")>> : f \in Feeds}
    /\ nextMid = 2
    /\ gen \in {[NoGen EXCEPT !.pc = "wait", !.script = s, !.idx = 1, !.mid = 1] :
                    s \in {<<"code">>, <<"code", "code">>}}
    /\ log = [e \in ExecIds |->
                IF e = FirstExec
                THEN <<Event(e, "expressions", 0, Expressions(gen.script), FALSE),
                       KExec(e, 0)>>
                ELSE <<>>]
    /\ interrupted = FALSE
    /\ elapsed = 0
    /\ InitSession
    /\ InitServer
    /\ InitRegistry
    /\ InitNamespace
    /\ InitMachine
    /\ InitPython

NextCollect ==
    \/ IPyRead
    \/ IPyResume
    \/ KernelStep

SpecCollect == InitCollect /\ [][NextCollect]_vars

\* Any sequence of calls on the registry.
NextRegistry ==
    \/ \E id \in SessionIds : GetOrCreateSession(id)
    \/ \E id \in SessionIds : DeleteSessionId(id)

SpecRegistry == Init /\ [][NextRegistry]_vars

\* Sessions that are created, used and swept while time passes.
NextCleanup ==
    \/ \E id \in SessionIds : GetOrCreateSession(id)
    \/ \E id \in SessionIds : Touch(id)
    \/ \E id \in SessionIds : \E b \in BOOLEAN : SetCurrent(id, b)
    \/ ClockTick
    \/ CleanupSweep

SpecCleanup == Init /\ [][NextCleanup]_vars

\* One executor that is given one-statement scripts, one after the other,
\* and resets between them.
NextNamespace ==
    \/ \E n \in Names : RunDefine(n)
    \/ \E n \in Names : RunUse(n)
    \/ ResetExecutor

SpecNamespace == Init /\ [][NextNamespace]_vars

\* One executor that is started and shut down, at any moment of its startup.
NextLifecycle ==
    \/ Start
    \/ StartupStep
    \/ StartupCancelled
    \/ ShutdownCall
    \/ ShutdownResume

SpecLifecycle == Init /\ [][NextLifecycle]_vars

\* One executor whose shutdown() runs concurrently with wait_ready() calls
\* (execute_script and reset begin with wait_ready()).
NextLifecycleRace ==
    \/ WaitReady
    \/ StartupStep
    \/ StartupCancelled
    \/ ShutdownCall
    \/ ShutdownResume

SpecLifecycleRace == Init /\ [][NextLifecycleRace]_vars

\* A Kernel State Machine given scripts, kernel messages and interrupts.
NextMachine ==
    \/ \E n \in 1..MaxUnits : OnExecuteScript(n)
    \/ \E type \in {"stream", "error", "idle"} : OnKernelMessage(type)
    \/ OnInterrupt

SpecMachine == Init /\ [][NextMachine]_vars

\* A PythonExecutor running one script, iterated to the end.
NextPython ==
    \/ /\ py.pc = "none"
       /\ \E s \in PyScripts : \E ln \in Layouts(s) : \E r \in Ranges :
            PyExecuteScript(s, ln, r)
    \/ PyNext

SpecPython == Init /\ [][NextPython]_vars

\* A MarkdownExecutor rendering one script.
NextMarkdown ==
    \/ /\ md.pc = "none"
       /\ \E line_count \in 1..MaxLine : \E blocks \in SUBSET (1..line_count) :
            \E r \in Ranges : MdExecuteScript(line_count, blocks, r)
    \/ MdNext

SpecMarkdown == Init /\ [][NextMarkdown]_vars

\* ------------------------------------------------- properties of the Session
EventsOf(e, types) ==
    {i \in DOMAIN log[e] : log[e][i].k = "event" /\ log[e][i].type \in types}
KExecsOf(e) == {i \in DOMAIN log[e] : log[e][i].k = "kexec"}

HasItem(out, type, content) ==
    \E i \in DOMAIN out : out[i].type = type /\ out[i].content = content
HasError(out) == \E i \in DOMAIN out : out[i].type = "error"

\* C1: a code unit is sent to the kernel only when every unit sent earlier
\* has produced its correlated idle status: the kernel never holds two
\* execute requests whose idle status is outstanding.
C1_OneUnitInKernel == Len(kpending) <= 1

\* C2: every execute_script call ends with exactly one terminal event
\* (execution-complete, execution-cancelled or execution-error) for its
\* execution id: a task that is done has handed exactly one to send_fn.
C2_ExactlyOneTerminal ==
    \A e \in ExecIds :
        tasks[e].pc = "done" => Cardinality(EventsOf(e, TerminalTypes)) = 1

\* C5: an execute_script called while an execution is running (a statement
\* of it is in the kernel) is answered with a busy event and starts nothing,
\* and the running execution is not cancelled.
C5_BusyRejection ==
    [][\A e \in ExecIds :
          (/\ tasks[e].pc = "unborn" /\ tasks'[e].pc # "unborn"
           /\ CancelTarget # NoExec /\ tasks[CancelTarget].pc = "read")
              => /\ EventsOf(e, {"busy"})' # {}
                 /\ tasks'[e].pc = "done"
                 /\ ~tasks'[CancelTarget].cancel
                 /\ current_task' = current_task]_vars

\* C9: once a statement was reported with the KeyboardInterrupt error of an
\* interrupt, no later statement of that script is sent to the kernel.
C9_InterruptHalts ==
    \A e \in ExecIds : \A i, j \in DOMAIN log[e] :
        (/\ i < j
         /\ log[e][i].type = "expression-done"
         /\ HasItem(log[e][i].out, "error", "KeyboardInterrupt"))
            => log[e][j].k # "kexec"


\* ------------------------------------- properties of one Session execution
Last(seq) == seq[Len(seq)]
StartedOf(e) == EventsOf(e, {"execution-started"})
\* The calls of Session.restart that found execution e with its task
\* started and its terminal event not yet handed to send_fn.
RestartsWhileRunning(e) ==
    {i \in DOMAIN log[e] : /\ log[e][i].type = "restart"
                           /\ log[e][i].out[1] \in {"sendStarted", "read", "sendDone"}}

\* C11: when get_iopub_msg times out while a statement is running, the
\* execution ends there with execution-error.
C11_TimeoutIsError ==
    [][\A e \in ExecIds :
        (/\ tasks[e].pc = "read" /\ ~tasks[e].cancel /\ iopub = <<>>
         /\ tasks'[e].pc # "read")
            => /\ Last(log'[e]).type = "execution-error"
               /\ tasks'[e].pc = "sendFinal"]_vars

\* C15: after a Session.restart that found an execution running, no
\* statement of that execution is sent to the kernel, its task is cancelled,
\* and once the task is over the execution has ended with its only
\* execution-cancelled event.
C15_RestartCancels ==
    \A e \in ExecIds : \A i \in RestartsWhileRunning(e) :
        /\ \A j \in KExecsOf(e) : j < i
        /\ tasks[e].cancel \/ tasks[e].pc = "done"
        /\ tasks[e].pc = "done" =>
            /\ Last(log[e]).type = "execution-cancelled"
            /\ Cardinality(EventsOf(e, TerminalTypes)) = 1

\* restart was called while a statement was running in the kernel, and the
\* task of the execution is over.
C15_Witness ==
    \E i \in RestartsWhileRunning(FirstExec) :
        /\ log[FirstExec][i].out = <<"read">>
        /\ tasks[FirstExec].pc = "done"
        /\ Cardinality(KExecsOf(FirstExec)) = 1

\* C18: a statement is sent to the kernel only after the execution-started
\* event of its execution, and an execution has at most one such event.
C18_StartedFirst ==
    \A e \in ExecIds :
        /\ Cardinality(StartedOf(e)) <= 1
        /\ \A i \in KExecsOf(e) : \E j \in StartedOf(e) : j < i

\* The second statement of a script was sent to the kernel.
C18_Witness ==
    /\ tasks[FirstExec].pc = "read"
    /\ tasks[FirstExec].idx = 2
    /\ Cardinality(KExecsOf(FirstExec)) >= 1

\* C19: the expression-done events of an execution come in strictly
\* ascending nodeIndex order, and each names an entry of the expressions of
\* the execution-started event.
C19_ResultsMatchStarted ==
    \A e \in ExecIds :
        LET done == EventsOf(e, {"expression-done"}) IN
        /\ \A i, j \in done : i < j => log[e][i].node < log[e][j].node
        /\ \A i \in done : \E j \in StartedOf(e) :
              \E n \in DOMAIN log[e][j].out : log[e][j].out[n] = log[e][i].node

\* C22: the step of the task that reaches a top-level string literal hands
\* one expression-done for that statement to send_fn and leaves the kernel
\* and its client alone; a step that calls kc.execute is at a statement that
\* is not a string literal.
C22_MarkdownBypassesKernel ==
    [][\A e \in ExecIds :
        LET t == tasks[e]
            i == t.idx + 1
        IN (/\ t.pc \in {"sendStarted", "sendDone"}
            /\ i <= Len(t.script)
            /\ tasks'[e].idx = i)
              => IF t.script[i] = "md"
                 THEN /\ Len(log'[e]) = Len(log[e]) + 1
                      /\ Last(log'[e]).k = "event"
                      /\ Last(log'[e]).type = "expression-done"
                      /\ Last(log'[e]).node = t.sel[i]
                      /\ UNCHANGED kernelVars
                 ELSE t.script[i] = "code" => Last(log'[e]).k = "kexec"]_vars

\* A string literal was reported while the kernel still held the request of
\* the statement before it.
C22_Witness ==
    \E e \in ExecIds :
        /\ kpending # <<>>
        /\ log[e] # <<>>
        /\ Last(log[e]).type = "expression-done"
        /\ HasItem(Last(log[e]).out, "text/markdown", "literal")

\* C26: when the task takes a message from iopub inside Kernel.execute, a
\* message whose parent msg_id is not the one kc.execute returned to the call
\* changes nothing of the task and no event comes of it; a message of the
\* call is passed on, and with its idle status the call is over.
C26_OnlyOwnMessages ==
    [][\A e \in ExecIds :
        (/\ tasks[e].pc = "read"
         /\ ~tasks[e].cancel /\ ~tasks'[e].cancel
         /\ iopub # <<>> /\ iopub' = Tail(iopub)
         /\ orphans' = orphans)
            => LET m == Head(iopub) IN
               /\ m.mid # tasks[e].mid => tasks'[e] = tasks[e] /\ log'[e] = log[e]
               /\ (m.mid = tasks[e].mid /\ m.type # "status") =>
                    /\ tasks'[e].out = tasks[e].out \o ProcessKernelMessage(m)
                    /\ tasks'[e].pc = "read"
               /\ (m.mid = tasks[e].mid /\ m.type = "status") =>
                    /\ tasks'[e].pc # "read"
                    /\ Last(log'[e]).type = "expression-done"
                    /\ Last(log'[e]).out = tasks[e].out]_vars

\* The call for a second request has taken, and passed over, the error the
\* kernel published for the first request after the read for it timed out.
C26_Witness ==
    \E e \in ExecIds :
        /\ tasks[e].pc = "read" /\ tasks[e].mid = 2 /\ tasks[e].out = <<>>
        /\ iopub = <<>>
        /\ Len(kpending) = 2 /\ kpending[1].failed
        /\ \E i \in EventsOf(e, {"expression-done"}) :
                log[e][i].node = 0 /\ log[e][i].out = <<>>

\* C29: the step in which SIGINT reaches the statement in the kernel leaves
\* the tasks, current_task and the events alone; with nothing but
\* interrupts, no execution is cancelled, and an execution that is over has
\* ended with execution-complete.
C29_InterruptKeepsTask ==
    /\ [][(/\ kpending # <<>> /\ kpending' # <<>>
           /\ ~Head(kpending).intr /\ Head(kpending').intr)
            => UNCHANGED <<tasks, current_task, log>>]_vars
    /\ [](\A e \in ExecIds :
            /\ EventsOf(e, {"execution-cancelled"}) = {}
            /\ tasks[e].pc = "done" => Last(log[e]).type = "execution-complete")

\* The first statement ended with the KeyboardInterrupt of an interrupt, the
\* second went to the kernel after it, and the execution is over.
C29_Witness ==
    \E e \in ExecIds :
        /\ tasks[e].pc = "done"
        /\ \E i \in EventsOf(e, {"expression-done"}) :
            /\ log[e][i].node = 0
            /\ HasItem(log[e][i].out, "error", "KeyboardInterrupt")
        /\ \E i \in KExecsOf(e) : log[e][i].node = 1

\* ------------------------------ properties of a Session run with a range
\* The call that started execution e with a line range: its statements,
\* their lines and the range.
RangeCall(e) == log[e][1].out
Ranged(e) == log[e] # <<>> /\ log[e][1].type = "execute"

\* The events of execution e, in order.
EventSeq(e) == SelectSeq(log[e], LAMBDA x : x.k = "event")

\* C21: when the run of a script that does not parse is over, its events
\* are execution-started, one expression-done whose output is one error
\* item, and the end of the stream; nothing was sent to the kernel.
C21_SyntaxErrorReported ==
    \A e \in ExecIds :
        (/\ Ranged(e)
         /\ RangeCall(e)[1] = <<"syn">>
         /\ tasks[e].pc = "done")
            => /\ KExecsOf(e) = {}
               /\ Len(EventSeq(e)) = 3
               /\ EventSeq(e)[1].type = "execution-started"
               /\ EventSeq(e)[2].type = "expression-done"
               /\ Len(EventSeq(e)[2].out) = 1
               /\ EventSeq(e)[2].out[1].type = "error"
               /\ EventSeq(e)[3].type = "execution-complete"

\* The statements with a line in the range r, for the lines ln.
Intersecting(ln, r) ==
    {n \in 0..(Len(ln) - 1) :
        \E l \in ln[n + 1][1]..ln[n + 1][2] : r[1] <= l /\ l <= r[2]}

\* The node indices of the entries of execution e at the positions pos.
NodesAt(e, pos) == {log[e][i].node : i \in pos}

\* C25: for a script that parses, run with a line range, execution-started
\* lists exactly the statements that have a line in the range, in script
\* order; only those are reported or sent to the kernel, in script order;
\* and when the run is over every one of them has been reported, the code
\* statements among them through the kernel.
C25_RangeFilter ==
    \A e \in ExecIds :
        (Ranged(e) /\ RangeCall(e)[3] # NoRange /\ RangeCall(e)[1] # <<"syn">>) =>
            LET s == RangeCall(e)[1]
                want == Intersecting(RangeCall(e)[2], RangeCall(e)[3])
                done == EventsOf(e, {"expression-done"})
            IN /\ \A j \in StartedOf(e) :
                    LET x == log[e][j].out IN
                    /\ {x[k] : k \in DOMAIN x} = want
                    /\ \A k \in 1..(Len(x) - 1) : x[k] < x[k + 1]
               /\ NodesAt(e, done) \subseteq want
               /\ NodesAt(e, KExecsOf(e)) \subseteq {n \in want : s[n + 1] = "code"}
               /\ \A i, j \in done : i < j => log[e][i].node < log[e][j].node
               /\ tasks[e].pc = "done" =>
                    /\ NodesAt(e, done) = want
                    /\ NodesAt(e, KExecsOf(e)) = {n \in want : s[n + 1] = "code"}

\* The run of a script is over whose first statement is on lines 1-2 and
\* whose second is after them, with the range line 2: the first statement
\* went to the kernel and was reported, the second was not.
C25_Witness ==
    \E e \in ExecIds :
        /\ Ranged(e)
        /\ RangeCall(e)[1] = <<"code", "code">>
        /\ RangeCall(e)[2][1] = <<1, 2>>
        /\ RangeCall(e)[3] = <<2, 2>>
        /\ tasks[e].pc = "done"
        /\ NodesAt(e, KExecsOf(e)) = {0}
        /\ NodesAt(e, EventsOf(e, {"expression-done"})) = {0}

\* --------------------------------------------- properties of the registry
\* C14: of two get_or_create_session calls for one id with no delete_session
\* of that id between them, the second returns the Session of the first and
\* constructs nothing; no Session is registered under two ids, and every
\* Session registered was constructed.
C14_GetOrCreateIdempotent ==
    /\ \A i, j \in DOMAIN calls :
        (/\ i < j
         /\ calls[i].op = "get" /\ calls[j].op = "get" /\ calls[i].id = calls[j].id
         /\ \A k \in (i + 1)..(j - 1) :
                ~(calls[k].op = "delete" /\ calls[k].id = calls[i].id))
            => calls[j].ret = calls[i].ret /\ ~calls[j].made
    /\ \A a, b \in SessionIds :
        (a # b /\ sessions[a] # NoSession) => sessions[a] # sessions[b]
    /\ \A a \in SessionIds : sessions[a] \in 0..nobj
    /\ nobj = Cardinality({i \in DOMAIN calls : calls[i].made})

\* An id was asked for twice, deleted, and asked for again.
C14_Witness ==
    \E i, j, k, l \in DOMAIN calls :
        /\ i < j /\ j < k /\ k < l
        /\ calls[i].op = "get" /\ calls[j].op = "get"
        /\ calls[k].op = "delete" /\ calls[l].op = "get"
        /\ calls[j].id = calls[i].id /\ calls[k].id = calls[i].id
        /\ calls[l].id = calls[i].id
        /\ calls[l].ret # calls[i].ret

\* C27: a sweep deletes no session whose current_execution is set and none
\* that was active within the window.
C27_SweepSparesActive ==
    [][(calls' # calls /\ Last(calls').op = "cleanup") =>
        \A id \in SessionIds :
            (sessions[id] # NoSession /\ sessions'[id] = NoSession) =>
                /\ ~busy[id]
                /\ now - last_active[id] > InactivityWindow]_vars

\* A sweep has deleted one session and left one that had been inactive as
\* long but has a current execution.
C27_Witness ==
    /\ calls # <<>>
    /\ Last(calls).op = "cleanup" /\ Last(calls).ret = 1
    /\ \E id \in SessionIds :
        /\ sessions[id] # NoSession
        /\ busy[id]
        /\ now - last_active[id] > InactivityWindow

\* ----------------------------------- properties of the kernel's namespace
\* The definitions of name n that no reset separates from run j.
DefinedBefore(n, j) ==
    {i \in 1..(j - 1) :
        /\ runs[i].op = "def" /\ runs[i].name = n
        /\ \A k \in (i + 1)..(j - 1) : runs[k].op # "reset"}

\* C17: a statement that uses a name succeeds exactly if an earlier statement
\* on the executor defined the name and reset() was not called since; the
\* kernel process defines the names defined since the last reset.
C17_ResetClearsNames ==
    /\ \A j \in DOMAIN runs :
        runs[j].op = "use" => (runs[j].ok <=> DefinedBefore(runs[j].name, j) # {})
    /\ \A n \in Names : n \in namespace <=> DefinedBefore(n, Len(runs) + 1) # {}

\* A name was defined and used, the executor was reset, and the use of the
\* name failed.
C17_Witness ==
    /\ Len(runs) = 4
    /\ runs[1].op = "def" /\ runs[2].op = "use" /\ runs[2].ok
    /\ runs[3].op = "reset"
    /\ runs[4].op = "use" /\ runs[4].name = runs[1].name /\ ~runs[4].ok

\* ------------------------------------ properties of startup and shutdown
\* C28: a shutdown() called on an executor that was never started, or right
\* after another shutdown() returned, returns without a kernel operation;
\* when no shutdown() is running and the last call was a shutdown(), there is
\* no startup task, no client and no manager; and the kernel is shut down
\* only after the startup task is over.
C28_ShutdownIdempotent ==
    /\ \A i \in DOMAIN ops :
        (ops[i] = "shutdown" /\ (i = 1 \/ ops[i - 1] = "return"))
            => i = Len(ops) \/ ops[i + 1] = "return"
    /\ (ops # <<>> /\ Last(ops) = "return")
            => ~ipy.attr /\ ~ipy.kc /\ ~ipy.km /\ ipy.sh = "idle"
    /\ ipy.sh = "kill" => ipy.task \in {"none", "done", "cancelled"}
    /\ \A i \in DOMAIN ops : ops[i] = "cancel" =>
            \A j \in (i + 1)..Len(ops) :
                ops[j] \in {"start_kernel", "start_channels"} =>
                    \E k \in (i + 1)..(j - 1) : ops[k] = "start"

\* A shutdown() cancelled the startup that was waiting for start_kernel and
\* shut the kernel down; the shutdown() after it returned at once.
C28_Witness ==
    /\ Len(ops) = 8
    /\ ops = <<"start", "start_kernel", "shutdown", "cancel", "shutdown_kernel",
               "return", "shutdown", "return">>

\* C37: when a shutdown() has returned and none is running, every kernel
\* this executor started and that still runs is the kernel of the manager
\* the executor holds.
C37_NoKernelLeftBehind ==
    (ipy.sh = "idle" /\ Count(ops, "return") > 0) =>
        \A k \in ipy.live : ipy.km /\ k = ipy.gen

\* ---------------------------------------- properties of expression-done
\* C38: in every expression-done event isInvisible is true exactly when the
\* output list is empty.
C38_InvisibleIffEmpty ==
    \A e \in ExecIds : \A i \in DOMAIN log[e] :
        (log[e][i].k = "event" /\ log[e][i].type = "expression-done") =>
            (log[e][i].inv <=> log[e][i].out = <<>>)

\* --------------------------------------- properties of reads left behind
\* C34: a read left behind by a cancelled execution never takes from iopub
\* a message of the request a later execution is waiting on in
\* Kernel.execute.
C34_LeftReadTakesNothing ==
    [][(orphans' = orphans - 1 /\ iopub # <<>> /\ iopub' = Tail(iopub)) =>
        \A e \in ExecIds :
            (tasks[e].pc = "read" /\ ~tasks[e].cancel) =>
                ~ForThisCall(Head(iopub), tasks[e].mid)]_vars

\* ------------------------------------- properties of ExecutionState.status
FinalStatuses == {"completed", "cancelled", "error"}

\* C35: the status of an execution only moves forward: pending, running,
\* then completed, cancelled or error, and from there it never changes.
C35_StatusForward ==
    [][\A e \in ExecIds :
        \/ execs'[e].status = execs[e].status
        \/ execs[e].status = "none" /\ execs'[e].status = "pending"
        \/ execs[e].status = "pending" /\ execs'[e].status = "running"
        \/ execs[e].status = "running" /\ execs'[e].status \in FinalStatuses]_vars

\* ------------------------------------------ properties of a disconnect
\* C36: once the handler of a connection has handled its WebSocketDisconnect,
\* the session's kernel is still alive and no execution that was submitted
\* on that connection is started, whatever connection is opened later.
C36_NothingStartedAfterDisconnect ==
    [][\A e \in ExecIds :
        (execs[e].status = "pending" /\ execs'[e].status = "running") =>
            /\ conns[execs[e].owner] # "closed"
            /\ alive']_vars

\* ------------------------------------------- properties of cancel messages
\* The statuses of an execution that is unknown or has finished.
NotCancellable == {"none", "completed", "cancelled", "error"}

\* Execution e got a cancel message in this step.
CancelStep(e) ==
    /\ Len(log'[e]) = Len(log[e]) + 2
    /\ log'[e][Len(log[e]) + 1].k = "recv"

C31_ResultForEveryStatement ==
    (py.pc \in {"done", "raised"} /\ py.script # <<"syn">>) =>
        [k \in DOMAIN py.results |-> py.results[k].node] = py.sel

\* C32: whatever line_range is passed, the expressions event covers the
\* whole file: its entries go from line 1 to the last line of the script.
C32_LineRangeIgnored ==
    (md.events # <<>> /\ md.range # NoRange) =>
        LET x == md.events[1].lines IN
        /\ x # <<>>
        /\ x[1][1] = 1
        /\ x[Len(x)][2] = md.line_count

\* ---------------------------------- properties of the Kernel State Machine
\* Where the script the machine accepted last begins in acts.
LastStarted ==
    CHOOSE i \in DOMAIN acts :
        /\ acts[i] = Out("Started", 0)
        /\ \A j \in (i + 1)..Len(acts) : acts[j] # Out("Started", 0)
Since(i, io, type) ==
    {j \in (i + 1)..Len(acts) : acts[j].io = io /\ acts[j].type = type}

\* C30: every ExecuteCode after the first comes right after the UnitResult
\* that the idle status of the unit before it produced; the ExecuteCode
\* actions of a script are for units 0, 1, 2, ... in this order; and when a
\* script of N units has had N idle statuses and no error, the state is
\* Idle, N ExecuteCode actions were returned and the last action is Complete.
C30_ExecuteOnIdle ==
    /\ \A j \in DOMAIN acts :
        (acts[j].io = "out" /\ acts[j].type = "ExecuteCode" /\ acts[j].unit > 0) =>
            /\ j > 2
            /\ acts[j - 1] = Out("UnitResult", acts[j].unit - 1)
            /\ acts[j - 2] = In("idle")
    /\ (\E i \in DOMAIN acts : acts[i] = Out("Started", 0)) =>
        LET sent == Since(LastStarted, "out", "ExecuteCode") IN
        /\ \A j \in sent : acts[j].unit = Cardinality({k \in sent : k < j})
        /\ (/\ Cardinality(Since(LastStarted, "in", "idle")) = ksm.units
            /\ Since(LastStarted, "in", "error") = {})
              => /\ ksm.state = "Idle"
                 /\ Cardinality(sent) = ksm.units
                 /\ Last(acts) = Out("Complete", 0)

\* A script of two units has had its two idle statuses and no error.
C30_Witness ==
    /\ ksm.units = 2
    /\ \E i \in DOMAIN acts : acts[i] = Out("Started", 0)
    /\ Cardinality(Since(LastStarted, "in", "idle")) = 2
    /\ Since(LastStarted, "in", "error") = {}
    /\ ksm.state = "Idle"

\* ----------------------------------------- properties of the queueing server
\* Executions whose execute_script_ws task was created and has not ended.
LiveTasks == {e \in ExecIds : execs[e].tpc \notin {"none", "done", "cancelled"}}
Running == {e \in ExecIds : execs[e].status = "running"}
\* The cancel messages received for e while its status was st.
CancelsAt(e, st) ==
    {i \in DOMAIN log[e] : log[e][i].k = "recv" /\ log[e][i].out = <<st>>}
LiveProcessors ==
    {c \in ConnIds : qproc[c].pc \in {"sched", "get", "await"} /\ ~qproc[c].cancel}

\* C3: on one session, whatever the number of connections opened with its
\* sessionId, at most one execution has status running and at most one
\* execute_script_ws task is live.
C3_OneRunning == Cardinality(Running) <= 1 /\ Cardinality(LiveTasks) <= 1

\* C4: an execution that is pending while the connection it came from is
\* open has a queue processor left to start it (without one it is never
\* started and never reaches a terminal status).
C4_PendingIsServed ==
    \A e \in ExecIds :
        (execs[e].status = "pending" /\ conns[execs[e].owner] = "open")
            => LiveProcessors # {}

C8_CancelPending ==
    \A e \in ExecIds :
        CancelsAt(e, "pending") # {}
            => execs[e].status = "cancelled" /\ KExecsOf(e) = {}

\* ------------------------------------------ properties of IPythonExecutor
\* The places in the log of the results the generator yielded.
Results == EventsOf(FirstExec, {"result"})

RemainingAfter(n) == [k \in 1..(Len(gen.script) - 1 - n) |-> n + k]

\* C20: when the generator has returned after the result of a failing
\* statement that was not the last of its script, a cancelled event that
\* names exactly the statements after it follows that result.
C20_CancelledNamesRemaining ==
    LET l == log[FirstExec] IN
    \A i \in Results :
        (/\ gen.pc = "done"
         /\ HasError(l[i].out)
         /\ l[i].node + 1 < Len(gen.script))
            => \E j \in DOMAIN l :
                /\ j > i
                /\ l[j].type = "cancelled"
                /\ l[j].out = RemainingAfter(l[i].node)

\* The messages _execute_code took for statement n before position i of
\* the log, in arrival order.
Reads(n, i) ==
    LET r == SelectSeq(SubSeq(log[FirstExec], 1, i - 1),
                       LAMBDA x : x.k = "read" /\ x.node = n)
    IN [k \in 1..Len(r) |-> r[k].out[1]]

SameStream(a, b) == a.type = "stream" /\ b.type = "stream" /\ a.val = b.val

\* Where the runs of consecutive stream messages of one name begin; any
\* other message is a run of its own.
RunStarts(ms) == {i \in DOMAIN ms : i = 1 \/ ~SameStream(ms[i - 1], ms[i])}
RunEnd(ms, i) ==
    CHOOSE j \in i..Len(ms) :
        /\ \A k \in (i + 1)..j : k \notin RunStarts(ms)
        /\ j = Len(ms) \/ (j + 1) \in RunStarts(ms)

\* The texts of messages i..j, one after the other.
RECURSIVE Texts(_, _, _)
Texts(ms, i, j) == IF i > j THEN "" ELSE ms[i].text \o Texts(ms, i + 1, j)

\* The output list out has one item for every run of the messages ms, in
\* arrival order: for a run of stream messages an item of that stream whose
\* content is the texts of the run in arrival order.
Coalesces(out, ms) ==
    LET starts == RunStarts(ms)
    IN /\ Len(out) = Cardinality(starts)
       /\ \A i \in starts :
            LET item == out[Cardinality({j \in starts : j <= i})] IN
            IF ms[i].type = "stream"
            THEN /\ item.type = ms[i].val
                 /\ item.content = Texts(ms, i, RunEnd(ms, i))
            ELSE item.type = ms[i].type

\* C23: the output list has one item for every run of consecutive stream
\* messages of one name, in arrival order, whose content is the texts of
\* the run in arrival order, and one item for every other message; no two
\* adjacent items have the same stream type.
C23_StreamsCoalesced ==
    /\ \A i \in 1..(Len(gen.out) - 1) :
            gen.out[i].type \in {"stdout", "stderr"}
                => gen.out[i + 1].type # gen.out[i].type
    /\ Coalesces(gen.out, Reads(gen.idx - 1, Len(log[FirstExec]) + 1))

\* Two stdout texts were merged into one item and the stderr text after
\* them started a new one.
C23_Witness ==
    /\ Len(gen.out) = 2
    /\ gen.out[1] = [type |-> "stdout", content |-> "ab"]
    /\ gen.out[2].type = "stderr"

\* C24: an on_stream call is made for the statement whose result comes
\* next: the results of all statements before it have been yielded, its own
\* has not, and the call carries the output of the messages taken for that
\* statement so far.
C24_StreamUpdates ==
    LET l == log[FirstExec] IN
    \A i \in DOMAIN l :
        l[i].k = "stream" =>
            /\ l[i].node = Cardinality({j \in Results : j < i})
            /\ \A j \in Results : l[j].node = l[i].node => j > i
            /\ Coalesces(l[i].out, Reads(l[i].node, i))

\* on_stream was called with two merged texts for the first statement and
\* called again for the second statement.
C24_Witness ==
    LET l == log[FirstExec] IN
    /\ \E i \in DOMAIN l :
        /\ l[i].k = "stream" /\ l[i].node = 0
        /\ l[i].out = <<[type |-> "stdout", content |-> "ab"]>>
    /\ \E i \in DOMAIN l : l[i].k = "stream" /\ l[i].node = 1

\* C10: once the time allowed after an interrupt() during a statement has
\* passed, execute_script is not waiting for a message of a silent kernel.
C10_InterruptLiveness ==
    (interrupted /\ elapsed >= GraceTicks) => ~(gen.pc = "wait" /\ iopub = <<>>)

\* C12: after a delete_session that found an execution running, the task
\* of that execution is cancelled or over and none of its statements is sent
\* to a kernel.
C12_DeleteCancels ==
    \A e \in ExecIds : \A i \in DeletesOf(e) :
        /\ execs[e].tcancel \/ TaskEnded(e)
        /\ \A j \in KExecsOf(e) : j < i

\* C13: an execution that delete_session found running gets at most one
\* terminal event, and exactly one once its task is over, on a connection
\* that is open.
C13_OneTerminalAfterDelete ==
    \A e \in ExecIds :
        DeletesOf(e) # {} =>
            /\ Cardinality(EventsOf(e, TerminalTypes)) <= 1
            /\ (TaskEnded(e) /\ conns[execs[e].ws] = "open")
                    => Cardinality(EventsOf(e, TerminalTypes)) = 1

\* C16: executor.reset() is never called while an execution of the session
\* has status running.
C16_NoResetWhileRunning == \A e \in ExecIds : ResetsOf(e) = {}
====
